---- MODULE Spec2Model ----
(***************************************************************************)
(* Reconciliation and matching engine of shekelsync:                       *)
(*   scripts/match_cc_transactions.py   Transaction-Level Matcher          *)
(*   scripts/account_pairing_lab.py     Discoverer, Classifier, Allocator  *)
(*                                                                         *)
(* Amounts are integers in agorot (1/100 of a currency unit), so the       *)
(* thresholds 1.0, 2, 5.0, 200.0 and 1000 of the source appear as 100,     *)
(* 200, 500, 20000 and 100000, and round(x, 2) leaves an amount as it is.  *)
(* Dates are day ordinals, 1 = 2025-01-01;                                 *)
(* the calendar below is exact for 2025 and 2026.  Text is a sequence of   *)
(* symbols (a digit, a blank, or a whole word standing for its letters).   *)
(***************************************************************************)
EXTENDS Integers, Sequences, FiniteSets, TLC

VARIABLES
    \* ---- Transaction-Level Matcher (match_cc_transactions.py) ----
    transactions,        \* snapshot of the transactions table (a set of rows)
    account_pairings,    \* rows of account_pairings, in query order
    tie_asc,             \* how the store orders rows that compare equal
    table,               \* committed rows of credit_card_expense_matches
    conn_table,          \* the same table as seen through the open connection
    pc,                  \* position of main()
    dry_run,
    sauvage_repayments,
    monthly_repayments,
    all_matches,
    all_stats,
    matched_expenses,
    insert_i,            \* rows of all_matches already inserted by to_sql
    table0,              \* history: committed table when the run started
    runs,                \* history: number of runs started
    first_matches        \* history: all_matches of the last finished run
                         \*          that started on an empty match table

VARIABLES
    \* ---- Discoverer, Classifier and Allocator (account_pairing_lab.py) ----
    today,               \* dt.datetime.now(dt.timezone.utc).date()
    call,                \* the invocation: which function, on which pairings
    cpc,                 \* position of the invocation
    fetched,             \* what the invocation has read from the store
    cycles,              \* the cycles built so far (Classifier, Allocator)
    alloc_log,           \* history: the allocation of each date bucket
    returned             \* the returned discrepancy record(s), or the error

mvars == <<transactions, account_pairings, tie_asc, table, conn_table, pc,
           dry_run, sauvage_repayments, monthly_repayments, all_matches,
           all_stats, matched_expenses, insert_i, table0, runs, first_matches>>

cvars == <<today, call, cpc, fetched, cycles, alloc_log, returned>>

vars == <<mvars, cvars>>

-----------------------------------------------------------------------------
(* Bounds of the model *)

MaxExpenses == 2
MaxRepayments == 2
MaxRuns == 2

-----------------------------------------------------------------------------
(* Generic helpers *)

None == <<>>
Some(x) == <<x>>

Abs(x) == IF x < 0 THEN -x ELSE x

RECURSIVE SumSeq(_)
SumSeq(s) == IF s = <<>> THEN 0 ELSE Head(s) + SumSeq(Tail(s))

\* Python's `pattern in text`.
IsSubstring(p, s) ==
    \E i \in 0..(Len(s) - Len(p)) : SubSeq(s, i + 1, i + Len(p)) = p

\* Lexicographic order of two texts by symbol rank.
Alphabet == <<" ", "0", "1", "2", "3", "4", "5", "6", "7", "8", "9",
              "MAX", "a", "b", "c", "cal", "isracard", "max", "x">>
Rank(ch) == CHOOSE i \in 1..Len(Alphabet) : Alphabet[i] = ch
RECURSIVE TextLess(_, _)
TextLess(s, t) ==
    IF t = <<>> THEN FALSE
    ELSE IF s = <<>> THEN TRUE
    ELSE IF Head(s) # Head(t) THEN Rank(Head(s)) < Rank(Head(t))
    ELSE TextLess(Tail(s), Tail(t))

-----------------------------------------------------------------------------
(* Calendar: pandas/datetime arithmetic on the dates the model uses *)

DaysBeforeMonth == <<0, 31, 59, 90, 120, 151, 181, 212, 243, 273, 304, 334>>
Ordinal(y, m, d) == (y - 2025) * 365 + DaysBeforeMonth[m] + d
YearOf(o) == 2025 + ((o - 1) \div 365)
DayOfYear(o) == ((o - 1) % 365) + 1
MonthOf(o) ==
    CHOOSE m \in 1..12 :
        /\ DaysBeforeMonth[m] < DayOfYear(o)
        /\ (m = 12 \/ DayOfYear(o) <= DaysBeforeMonth[m + 1])
DayOf(o) == DayOfYear(o) - DaysBeforeMonth[MonthOf(o)]

(* The store keeps a date as text, 2025-11-22T22:00:00.000Z, and SQLite      *)
(* compares it as text with the bound parameter, which is either             *)
(* strftime('%Y-%m-%d') or a datetime adapted to 'YYYY-MM-DD HH:MM:SS'.  On   *)
(* the same day the stored text is the greater one (it is longer, and 'T'    *)
(* sorts after ' '), so `date <= ?` admits only earlier days.                *)
StoredGE(date, day) == date >= day
StoredLE(date, day) == date < day
StoredLT(date, day) == date < day

-----------------------------------------------------------------------------
(* Row order of the store's result sets *)

\* Rows that the ORDER BY clause leaves equal come in an order the query does
\* not fix; it is a property of the snapshot (tie_asc), the same in every run.
TieLess(x, y) ==
    IF tie_asc THEN x.identifier < y.identifier ELSE x.identifier > y.identifier

RowLess(order, x, y) ==
    CASE order = "date DESC" ->
            x.date > y.date \/ (x.date = y.date /\ TieLess(x, y))
      [] order = "date ASC" ->
            x.date < y.date \/ (x.date = y.date /\ TieLess(x, y))
      [] order = "date ASC, name ASC" ->
            \/ x.date < y.date
            \/ x.date = y.date /\ TextLess(x.name, y.name)
            \/ x.date = y.date /\ x.name = y.name /\ TieLess(x, y)

RECURSIVE OrderBy(_, _)
\* The rows of S as a sequence in the given order.
OrderBy(S, order) ==
    IF S = {} THEN <<>>
    ELSE LET first == CHOOSE x \in S : \A y \in S \ {x} : RowLess(order, x, y)
         IN  <<first>> \o OrderBy(S \ {first}, order)

-----------------------------------------------------------------------------
(* match_cc_transactions.py: the per-repayment functions *)

SAUVAGE_DAY == 15
LARGE_AMOUNT == 100000
LARGE_DELTA == 500
EXACT_DELTA == 100
IMMEDIATE_DAYS == 7
tolerance == 200
THREE_MONTHS_DAYS == 90
SAUVAGE_LOOKBACK_DAYS == 365
MONTHLY_LOOKBACK_DAYS == 90

\* SELECT ... FROM account_pairings WHERE is_active = 1
ActivePairings == SelectSeq(account_pairings, LAMBDA p : p.is_active)

PairingMatches(p, repayment_name) ==
    \E k \in 1..Len(p.match_patterns) :
        IsSubstring(p.match_patterns[k], repayment_name)

\* (card_number, cc_vendor) of the first active pairing one of whose
\* patterns occurs in the repayment's description; (None, None) otherwise.
get_card_from_repayment_name(repayment_name) ==
    LET hits == {i \in 1..Len(ActivePairings) :
                    PairingMatches(ActivePairings[i], repayment_name)}
    IN  IF hits = {} THEN [card_number |-> None, cc_vendor |-> ""]
        ELSE LET i == CHOOSE j \in hits : \A k \in hits : j <= k
             IN  [card_number |-> ActivePairings[i].credit_card_account_number,
                  cc_vendor   |-> ActivePairings[i].credit_card_vendor]

\* Outgoing rows of the card dated in [repayment_date - 7, repayment_date]
\* (as the store compares dates) whose amount is within delta of the amount.
RecentExpenses(cc_vendor, card_number, repayment_date, repayment_amount, delta) ==
    {t \in transactions :
        /\ t.vendor = cc_vendor
        /\ t.account_number = card_number
        /\ t.price < 0
        /\ StoredGE(t.date, repayment_date - IMMEDIATE_DAYS)
        /\ StoredLE(t.date, repayment_date)
        /\ Abs(Abs(t.price) - repayment_amount) < delta}

\* Variant of the detection that looks for an expense of the same amount
\* only when the amount is large.
is_sauvage_large_only(repayment_row, card_number, cc_vendor) ==
    LET repayment_amount == Abs(repayment_row.price)
        repayment_date   == repayment_row.date
    IN  \/ DayOf(repayment_date) > SAUVAGE_DAY
        \/ /\ repayment_amount > LARGE_AMOUNT
           /\ RecentExpenses(cc_vendor, card_number, repayment_date,
                             repayment_amount, LARGE_DELTA) # {}

is_sauvage_repayment(repayment_row, card_number, cc_vendor) ==
    LET repayment_amount == Abs(repayment_row.price)
        repayment_date   == repayment_row.date
    IN  \/ DayOf(repayment_date) > SAUVAGE_DAY
        \/ /\ repayment_amount > LARGE_AMOUNT
           /\ RecentExpenses(cc_vendor, card_number, repayment_date,
                             repayment_amount, LARGE_DELTA) # {}
        \/ RecentExpenses(cc_vendor, card_number, repayment_date,
                          repayment_amount, EXACT_DELTA) # {}

\* Variant of the subquery that finds no persisted match.
PersistedIdsIgnored(cc_vendor) == {}

\* identifier NOT IN (SELECT expense_txn_id FROM credit_card_expense_matches
\*                    WHERE expense_vendor = ?), read through the connection.
PersistedIds(cc_vendor) ==
    {conn_table[i].expense_txn_id : i \in
        {j \in 1..Len(conn_table) : conn_table[j].expense_vendor = cc_vendor}}

\* The single row of the query (ORDER BY date DESC LIMIT 1), or None.
check_immediate_payment(repayment_amount, repayment_date, cc_vendor, card_number) ==
    LET rows == OrderBy(
            {t \in RecentExpenses(cc_vendor, card_number, repayment_date,
                                  repayment_amount, EXACT_DELTA) :
                t.identifier \notin PersistedIds(cc_vendor)},
            "date DESC")
    IN  IF rows = <<>> THEN None ELSE Some(rows[1])

\* First and last day of the calendar month before the repayment's month.
get_billing_period(repayment_date) ==
    LET month == MonthOf(repayment_date)
        year  == YearOf(repayment_date)
        billing_month == IF month = 1 THEN 12 ELSE month - 1
        billing_year  == IF month = 1 THEN year - 1 ELSE year
    IN  [period_start |-> Ordinal(billing_year, billing_month, 1),
         period_end   |-> IF billing_month = 12
                          THEN Ordinal(billing_year, 12, 31)
                          ELSE Ordinal(billing_year, billing_month + 1, 1) - 1]

filter_already_matched(expenses, already_matched_expenses) ==
    SelectSeq(expenses,
              LAMBDA row : <<row.identifier, row.vendor>> \notin already_matched_expenses)

MakeMatch(repayment_row, card_number, expense, method) ==
    [repayment_txn_id |-> repayment_row.identifier,
     repayment_date   |-> repayment_row.date,
     repayment_amount |-> Abs(repayment_row.price),
     card_number      |-> card_number,
     expense_txn_id   |-> expense.identifier,
     expense_vendor   |-> expense.vendor,
     expense_date     |-> expense.date,
     expense_amount   |-> Abs(expense.price),
     expense_name     |-> expense.name,
     match_confidence |-> 1,
     match_method     |-> method]

RECURSIVE AccumulateUnchecked(_, _, _, _, _, _)
\* Variant of the loop that compares the running sum, without the expense
\* at hand, with the repayment amount plus tolerance.
AccumulateUnchecked(expenses, i, st, repayment_row, card_number, method) ==
    IF i > Len(expenses) THEN st
    ELSE LET expense_amount   == Abs(expenses[i].price)
             repayment_amount == Abs(repayment_row.price)
         IN  IF st.running_sum <= repayment_amount + tolerance
             THEN LET next == [matches |-> Append(st.matches,
                                    MakeMatch(repayment_row, card_number,
                                              expenses[i], method)),
                               running_sum |-> st.running_sum + expense_amount]
                  IN  IF Abs(next.running_sum - repayment_amount) <= tolerance
                      THEN next
                      ELSE AccumulateUnchecked(expenses, i + 1, next, repayment_row,
                                               card_number, method)
             ELSE AccumulateUnchecked(expenses, i + 1, st, repayment_row,
                                      card_number, method)

RECURSIVE AccumulateNoBreak(_, _, _, _, _, _)
\* Variant of the loop that goes on after the running sum has come within
\* tolerance of the repayment amount.
AccumulateNoBreak(expenses, i, st, repayment_row, card_number, method) ==
    IF i > Len(expenses) THEN st
    ELSE LET expense_amount   == Abs(expenses[i].price)
             repayment_amount == Abs(repayment_row.price)
         IN  IF st.running_sum + expense_amount <= repayment_amount + tolerance
             THEN AccumulateNoBreak(expenses, i + 1,
                        [matches |-> Append(st.matches,
                                        MakeMatch(repayment_row, card_number,
                                                  expenses[i], method)),
                         running_sum |-> st.running_sum + expense_amount],
                        repayment_row, card_number, method)
             ELSE AccumulateNoBreak(expenses, i + 1, st, repayment_row,
                                    card_number, method)

RECURSIVE Accumulate(_, _, _, _, _, _)
\* The chronological loop over expenses[i..]: an expense is taken when it
\* keeps running_sum within repayment_amount + tolerance, and the loop breaks
\* once the running sum is within tolerance of the repayment amount.
Accumulate(expenses, i, st, repayment_row, card_number, method) ==
    IF i > Len(expenses) THEN st
    ELSE LET expense_amount   == Abs(expenses[i].price)
             repayment_amount == Abs(repayment_row.price)
         IN  IF st.running_sum + expense_amount <= repayment_amount + tolerance
             THEN LET next == [matches |-> Append(st.matches,
                                    MakeMatch(repayment_row, card_number,
                                              expenses[i], method)),
                               running_sum |-> st.running_sum + expense_amount]
                  IN  IF Abs(next.running_sum - repayment_amount) <= tolerance
                      THEN next
                      ELSE Accumulate(expenses, i + 1, next, repayment_row,
                                      card_number, method)
             ELSE Accumulate(expenses, i + 1, st, repayment_row, card_number,
                             method)

MatchedSum(matches) == SumSeq([i \in 1..Len(matches) |-> matches[i].expense_amount])

\* Unmatched outgoing rows of the card the store dates in [from, to] or, with
\* strict = TRUE, in [from, to).
UnmatchedExpenses(cc_vendor, card_number, from, to, strict) ==
    {t \in transactions :
        /\ t.vendor = cc_vendor
        /\ t.account_number = card_number
        /\ t.price < 0
        /\ StoredGE(t.date, from)
        /\ IF strict THEN StoredLT(t.date, to) ELSE StoredLE(t.date, to)
        /\ t.identifier \notin PersistedIds(cc_vendor)}

\* Variant of the start of the lookback that takes the earlier of the two
\* limits.
CarryoverStartEarliest(repayment_date, period_start, max_lookback_days) ==
    IF period_start - THREE_MONTHS_DAYS <= repayment_date - max_lookback_days
    THEN period_start - THREE_MONTHS_DAYS
    ELSE repayment_date - max_lookback_days

CarryoverStart(repayment_date, period_start, max_lookback_days) ==
    LET temporal_limit    == repayment_date - max_lookback_days
        three_months_back == period_start - THREE_MONTHS_DAYS
    IN  IF three_months_back >= temporal_limit THEN three_months_back
        ELSE temporal_limit

\* STEP 2 and STEP 3 of match_repayment_to_expenses.
MonthlyMatch(repayment_row, card_number, cc_vendor, already_matched_expenses, max_lookback_days) ==
    LET repayment_amount == Abs(repayment_row.price)
        period   == get_billing_period(repayment_row.date)
        expenses == filter_already_matched(
                        OrderBy(UnmatchedExpenses(cc_vendor, card_number,
                                    period.period_start, period.period_end, FALSE),
                                "date ASC, name ASC"),
                        already_matched_expenses)
        billing  == Accumulate(expenses, 1, [matches |-> <<>>, running_sum |-> 0],
                               repayment_row, card_number, "auto_chronological")
        carryover_expenses ==
            filter_already_matched(
                OrderBy(UnmatchedExpenses(cc_vendor, card_number,
                            CarryoverStart(repayment_row.date, period.period_start,
                                           max_lookback_days),
                            period.period_start, TRUE),
                        "date ASC"),
                already_matched_expenses)
        final == IF repayment_amount - MatchedSum(billing.matches) > tolerance
                 THEN Accumulate(carryover_expenses, 1, billing, repayment_row,
                                 card_number, "carryover")
                 ELSE billing
        difference == repayment_amount - MatchedSum(final.matches)
    IN  IF expenses = <<>>
        THEN [matches |-> <<>>,
              stats   |-> [error |-> "no_expenses", match_type |-> "",
                           matched_count |-> 0, matched_sum |-> 0,
                           difference |-> 0, perfect_match |-> FALSE,
                           had_carryover |-> FALSE]]
        ELSE [matches |-> final.matches,
              stats   |-> [error |-> "", match_type |-> "monthly",
                           matched_count |-> Len(final.matches),
                           matched_sum |-> MatchedSum(final.matches),
                           difference |-> difference,
                           perfect_match |-> Abs(difference) <= tolerance,
                           had_carryover |->
                               \E i \in 1..Len(final.matches) :
                                   final.matches[i].match_method = "carryover"]]

match_repayment_to_expenses(repayment_row, already_matched_expenses, max_lookback_days) ==
    LET card == get_card_from_repayment_name(repayment_row.name)
        repayment_amount == Abs(repayment_row.price)
        immediate_match ==
            IF is_sauvage_repayment(repayment_row, card.card_number, card.cc_vendor)
            THEN check_immediate_payment(repayment_amount, repayment_row.date,
                                         card.cc_vendor, card.card_number)
            ELSE None
    IN  IF card.card_number = None
        THEN [matches |-> <<>>,
              stats   |-> [error |-> "unknown_card", match_type |-> "",
                           matched_count |-> 0, matched_sum |-> 0,
                           difference |-> 0, perfect_match |-> FALSE,
                           had_carryover |-> FALSE]]
        ELSE IF immediate_match # None
        THEN [matches |-> <<MakeMatch(repayment_row, card.card_number,
                                      immediate_match[1], "sauvage_payment")>>,
              stats   |-> [error |-> "", match_type |-> "sauvage",
                           matched_count |-> 1,
                           matched_sum |-> Abs(immediate_match[1].price),
                           difference |-> 0, perfect_match |-> TRUE,
                           had_carryover |-> FALSE]]
        ELSE MonthlyMatch(repayment_row, card.card_number, card.cc_vendor,
                          already_matched_expenses, max_lookback_days)

-----------------------------------------------------------------------------
(* Inputs of the Matcher: the snapshots the model draws from *)

Card1456 == <<"1", "4", "5", "6">>
Card7890 == <<"7", "8", "9", "0">>
Card9999 == <<"9", "9", "9", "9">>

Bank0162 == <<"0", "1", "6", "2">>

PairingRow(id, cc_vendor, cc_account, bank_vendor, bank_account, patterns, active, ack) ==
    [id                         |-> id,
     credit_card_vendor         |-> cc_vendor,
     credit_card_account_number |-> cc_account,
     bank_vendor                |-> bank_vendor,
     bank_account_number        |-> bank_account,
     match_patterns             |-> patterns,
     is_active                  |-> active,
     discrepancy_acknowledged   |-> ack]

PairingChoices ==
    { << PairingRow(1, "visaCal", Card9999, "discount", Bank0162, << <<"cal">> >>, FALSE, FALSE),
         PairingRow(2, "visaCal", Card1456, "discount", Bank0162, << <<"cal">>, Card1456 >>, TRUE, FALSE),
         PairingRow(3, "max", Card7890, "discount", Bank0162, << <<"max">>, Card7890 >>, TRUE, FALSE) >>,
      << PairingRow(4, "max", None, "discount", Bank0162, << <<"max">> >>, TRUE, FALSE),
         PairingRow(2, "visaCal", Card1456, "discount", Bank0162, << <<"cal">>, Card1456 >>, TRUE, FALSE) >> }

Txn(id, vendor, account, date, processed_date, name, price, status, category) ==
    [identifier |-> id, vendor |-> vendor, account_number |-> account,
     date |-> date, processed_date |-> processed_date, name |-> name,
     price |-> price, status |-> status, category |-> category]

ExpenseCatalog ==
    { Txn(1, "visaCal", Card1456, Ordinal(2025, 10, 14), None, <<"a">>, -119950, "completed", "other"),
      Txn(2, "visaCal", Card1456, Ordinal(2025, 10, 5), None,  <<"b">>, -50000,  "completed", "other"),
      Txn(3, "visaCal", Card1456, Ordinal(2025, 10, 20), None, <<"a">>, -30000,  "completed", "other"),
      Txn(4, "visaCal", Card1456, Ordinal(2025, 9, 10), None,  <<"c">>, -20000,  "completed", "other"),
      Txn(5, "max",     Card7890, Ordinal(2025, 10, 7), None,  <<"a">>, -50000,  "completed", "other"),
      Txn(6, "visaCal", Card1456, Ordinal(2025, 10, 5), None,  <<"a">>, -50000,  "pending",   "other"),
      Txn(7, "visaCal", Card1456, Ordinal(2025, 11, 8), None,  <<"b">>, -80000,  "completed", "other") }

RepaymentCatalog ==
    { Txn(101, "discount", None, Ordinal(2025, 10, 20), None, <<"cal", " ">> \o Card1456, -120000, "completed", "repayment"),
      Txn(102, "discount", None, Ordinal(2025, 11, 9), None,  <<"cal", " ">> \o Card1456, -80000,  "completed", "repayment"),
      Txn(103, "discount", None, Ordinal(2025, 10, 21), None, Card1456,                   -120000, "completed", "repayment"),
      Txn(104, "discount", None, Ordinal(2025, 11, 10), None, <<"max">>,                  -100000, "completed", "repayment"),
      Txn(105, "discount", None, Ordinal(2025, 11, 9), None,  <<"x">>,                    -5000,   "completed", "repayment"),
      Txn(106, "discount", None, Ordinal(2025, 11, 9), None,  <<"cal">>,                  -50000,  "pending",   "repayment") }

SubsetsUpTo(S, n) == {X \in SUBSET S : Cardinality(X) <= n}

-----------------------------------------------------------------------------
(* match_cc_transactions.py: main() *)

\* Variant of the sort that puts the greatest key first.
SortedIndexDescending(keys) ==
    [k \in 1..Len(keys) |->
        CHOOSE i \in 1..Len(keys) :
            Cardinality({j \in 1..Len(keys) :
                \/ keys[j] > keys[i]
                \/ keys[j] = keys[i] /\ j < i}) = k - 1]

\* Position k of the result holds the index of the k-th smallest key; equal
\* keys keep their order (the sorts of pandas on the few rows of a run).
SortedIndex(keys) ==
    [k \in 1..Len(keys) |->
        CHOOSE i \in 1..Len(keys) :
            Cardinality({j \in 1..Len(keys) :
                \/ keys[j] < keys[i]
                \/ keys[j] = keys[i] /\ j < i}) = k - 1]

SortValues(rows, keys) == [k \in 1..Len(rows) |-> rows[SortedIndex(keys)[k]]]

\* repayments_query: completed rows of the repayment category dated from the
\* cutoff on, ORDER BY date ASC.
Repayments ==
    OrderBy({t \in transactions :
                /\ t.category = "repayment"
                /\ t.status = "completed"
                /\ StoredGE(t.date, Ordinal(2025, 10, 1))},
            "date ASC")

IsSauvageRow(repayment) ==
    LET card == get_card_from_repayment_name(repayment.name)
    IN  /\ card.card_number # None
        /\ is_sauvage_repayment(repayment, card.card_number, card.cc_vendor)

FreshMatchedExpenses == {}

\* Variant of the run-scoped exclusion that records nothing in a dry run.
MatchKeysUnlessDryRun(matches) ==
    IF dry_run THEN {}
    ELSE {<<matches[i].expense_txn_id, matches[i].expense_vendor>> : i \in 1..Len(matches)}

MatchKeys(matches) ==
    {<<matches[i].expense_txn_id, matches[i].expense_vendor>> : i \in 1..Len(matches)}

StatRow(repayment, stats) ==
    [repayment_name   |-> repayment.name,
     repayment_date   |-> repayment.date,
     repayment_amount |-> Abs(repayment.price),
     stats            |-> stats]

\* matches_df.drop(columns=['expense_name'])
DropName(m) == [k \in DOMAIN m \ {"expense_name"} |-> m[k]]
TableRows(matches) == [i \in 1..Len(matches) |-> DropName(matches[i])]

\* What a statement executed on the connection leaves committed: the
\* connection is opened with sqlite3's default isolation level, so DELETE and
\* INSERT run inside an open transaction and commit nothing by themselves.
\* Variant of the connection that commits every statement (autocommit).
StatementAutocommits(committed, view) == view

StatementCommits(committed, view) == committed

\* PHASE 1 & 2 (lines 577-608): split the repayments and order both lists.
Separate ==
    /\ pc = "start"
    /\ LET sauvage == SelectSeq(Repayments, IsSauvageRow)
           monthly == SelectSeq(Repayments, LAMBDA r : ~IsSauvageRow(r))
       IN  /\ sauvage_repayments' =
                SortValues(sauvage, [i \in 1..Len(sauvage) |-> Abs(sauvage[i].price)])
           /\ monthly_repayments' =
                SortValues(monthly, [i \in 1..Len(monthly) |-> -monthly[i].date])
    /\ all_matches' = <<>>
    /\ all_stats' = <<>>
    /\ matched_expenses' = FreshMatchedExpenses
    /\ pc' = "process"
    /\ UNCHANGED <<cvars, transactions, account_pairings, tie_asc, table, conn_table,
                   dry_run, insert_i, table0, runs, first_matches>>

Process(repayment, max_lookback_days) ==
    LET result == match_repayment_to_expenses(repayment, matched_expenses,
                                              max_lookback_days)
    IN  /\ all_matches' = all_matches \o result.matches
        /\ matched_expenses' = matched_expenses \cup MatchKeys(result.matches)
        /\ all_stats' = Append(all_stats, StatRow(repayment, result.stats))

\* One turn of the loop over sauvage_repayments (lines 613-628).
ProcessSauvage ==
    /\ pc = "process"
    /\ sauvage_repayments # <<>>
    /\ Process(Head(sauvage_repayments), SAUVAGE_LOOKBACK_DAYS)
    /\ sauvage_repayments' = Tail(sauvage_repayments)
    /\ UNCHANGED <<cvars, transactions, account_pairings, tie_asc, table, conn_table,
                   pc, dry_run, monthly_repayments, insert_i, table0, runs,
                   first_matches>>

\* One turn of the loop over monthly_repayments (lines 633-649).
ProcessMonthly ==
    /\ pc = "process"
    /\ sauvage_repayments = <<>>
    /\ monthly_repayments # <<>>
    /\ Process(Head(monthly_repayments), MONTHLY_LOOKBACK_DAYS)
    /\ monthly_repayments' = Tail(monthly_repayments)
    /\ UNCHANGED <<cvars, transactions, account_pairings, tie_asc, table, conn_table,
                   pc, dry_run, sauvage_repayments, insert_i, table0, runs,
                   first_matches>>

ReadyToSave ==
    pc = "process" /\ sauvage_repayments = <<>> /\ monthly_repayments = <<>>

\* Line 652 false: nothing matched, or --dry-run.
SaveSkip ==
    /\ ReadyToSave
    /\ all_matches = <<>> \/ dry_run
    /\ pc' = "done"
    /\ UNCHANGED <<cvars, transactions, account_pairings, tie_asc, table, conn_table,
                   dry_run, sauvage_repayments, monthly_repayments, all_matches,
                   all_stats, matched_expenses, insert_i, table0, runs,
                   first_matches>>

\* Line 654: DELETE FROM credit_card_expense_matches.
SaveDelete ==
    /\ ReadyToSave
    /\ all_matches # <<>> /\ ~dry_run
    /\ conn_table' = <<>>
    /\ table' = StatementCommits(table, conn_table')
    /\ insert_i' = 0
    /\ pc' = "insert"
    /\ UNCHANGED <<cvars, transactions, account_pairings, tie_asc, dry_run,
                   sauvage_repayments, monthly_repayments, all_matches,
                   all_stats, matched_expenses, table0, runs, first_matches>>

\* Lines 657-665: to_sql(if_exists='append') inserts the rows one by one.
SaveInsertRow ==
    /\ pc = "insert"
    /\ insert_i < Len(all_matches)
    /\ conn_table' = Append(conn_table, TableRows(all_matches)[insert_i + 1])
    /\ table' = StatementCommits(table, conn_table')
    /\ insert_i' = insert_i + 1
    /\ UNCHANGED <<cvars, transactions, account_pairings, tie_asc, pc, dry_run,
                   sauvage_repayments, monthly_repayments, all_matches,
                   all_stats, matched_expenses, table0, runs, first_matches>>

\* Line 666: conn.commit() (to_sql commits its own transaction the same way).
SaveCommit ==
    /\ pc = "insert"
    /\ insert_i = Len(all_matches)
    /\ table' = conn_table
    /\ pc' = "done"
    /\ UNCHANGED <<cvars, transactions, account_pairings, tie_asc, conn_table, dry_run,
                   sauvage_repayments, monthly_repayments, all_matches,
                   all_stats, matched_expenses, insert_i, table0, runs,
                   first_matches>>

\* A statement of the write raises (or the process dies) before the commit:
\* the exception leaves main(), and the open transaction is rolled back.
SaveFail ==
    /\ pc = "insert"
    /\ conn_table' = table
    /\ pc' = "failed"
    /\ UNCHANGED <<cvars, transactions, account_pairings, tie_asc, table, dry_run,
                   sauvage_repayments, monthly_repayments, all_matches,
                   all_stats, matched_expenses, insert_i, table0, runs,
                   first_matches>>

\* The script is started again on the same snapshot, after the owner of the
\* store has emptied the match table (clear) or not.
Restart ==
    /\ pc \in {"done", "failed"}
    /\ runs < MaxRuns
    /\ \E clear \in BOOLEAN, dry \in BOOLEAN :
        /\ table' = IF clear THEN <<>> ELSE table
        /\ conn_table' = table'
        /\ table0' = table'
        /\ dry_run' = dry
    /\ first_matches' = IF pc = "done" /\ table0 = <<>>
                        THEN Some(all_matches) ELSE first_matches
    /\ runs' = runs + 1
    /\ pc' = "start"
    /\ sauvage_repayments' = <<>>
    /\ monthly_repayments' = <<>>
    /\ all_matches' = <<>>
    /\ all_stats' = <<>>
    /\ matched_expenses' = {}
    /\ insert_i' = 0
    /\ UNCHANGED <<cvars, transactions, account_pairings, tie_asc>>

InitMatcher ==
    /\ \E E \in SubsetsUpTo(ExpenseCatalog, MaxExpenses),
          R \in SubsetsUpTo(RepaymentCatalog, MaxRepayments) :
            transactions = E \cup R
    /\ account_pairings \in PairingChoices
    /\ tie_asc \in BOOLEAN
    /\ dry_run \in BOOLEAN
    /\ table = <<>>
    /\ conn_table = <<>>
    /\ table0 = <<>>
    /\ pc = "start"
    /\ sauvage_repayments = <<>>
    /\ monthly_repayments = <<>>
    /\ all_matches = <<>>
    /\ all_stats = <<>>
    /\ matched_expenses = {}
    /\ insert_i = 0
    /\ runs = 1
    /\ first_matches = None
    /\ today = 0 /\ call = None /\ cpc = "" /\ fetched = None
    /\ cycles = <<>> /\ alloc_log = <<>> /\ returned = None

NextMatcher ==
    \/ Separate
    \/ ProcessSauvage
    \/ ProcessMonthly
    \/ SaveSkip
    \/ SaveDelete
    \/ SaveInsertRow
    \/ SaveCommit
    \/ SaveFail
    \/ Restart

SpecMatcher == InitMatcher /\ [][NextMatcher]_vars

-----------------------------------------------------------------------------
(* Claims about the Matcher *)

\* C1 (as stated): within one run no expense key (expense id, expense vendor)
\* appears in more than one emitted ExpenseMatch.
C1_NoExpenseMatchedTwice ==
    \A i, j \in 1..Len(all_matches) :
        i # j => <<all_matches[i].expense_txn_id, all_matches[i].expense_vendor>>
                 # <<all_matches[j].expense_txn_id, all_matches[j].expense_vendor>>

C7_WriteAllOrNothing ==
    /\ pc \in {"insert", "failed"} => table = table0
    /\ table = table0 \/ (pc = "done" /\ table = TableRows(all_matches))

C7_Witness ==
    /\ pc = "failed"
    /\ table0 # <<>>
    /\ insert_i >= 1
    /\ table = table0

\* C8 (as stated): after a run the committed match table is exactly the
\* run's matches when the run was not a dry run, also when the run produced
\* no match, and is the prior table when it was a dry run.
C8_TableIsRunResult ==
    pc = "done" =>
        IF dry_run THEN table = table0 ELSE table = TableRows(all_matches)


-----------------------------------------------------------------------------
(* account_pairing_lab.py: text and calendar helpers *)

Min(a, b) == IF a < b THEN a ELSE b
Max(a, b) == IF a > b THEN a ELSE b

Range(s) == {s[i] : i \in 1..Len(s)}

\* The first n elements (LIMIT n).
Take(s, n) == IF Len(s) <= n THEN s ELSE SubSeq(s, 1, n)

\* str.lower(): the symbol of an upper-case word becomes the symbol of the
\* same word in lower case; digits, blanks and Hebrew words are unchanged.
LowerSym(ch) ==
    CASE ch = "MAX" -> "max"
      [] ch = "CAL" -> "cal"
      [] OTHER -> ch
Lower(text) == [i \in 1..Len(text) |-> LowerSym(text[i])]

IsDigit(ch) == ch \in {"0", "1", "2", "3", "4", "5", "6", "7", "8", "9"}

\* The Hebrew keywords are written in Latin letters: "mks" for the Hebrew
\* spelling of max, "k.a.l" and "viza kal" for those of cal, and so on.
VENDOR_KEYWORDS(vendor) ==
    CASE vendor = "max"      -> << <<"mks">>, <<"max">> >>
      [] vendor = "visaCal"  -> << <<"k.a.l">>, <<"cal">>,
                                   <<"viza", " ", "kal">>, <<"visa", " ", "cal">> >>
      [] vendor = "isracard" -> << <<"isracart">>, <<"isracard">> >>
      [] vendor = "amex"     -> << <<"amks">>, <<"amerikan", " ", "ekspres">>,
                                   <<"amex">>, <<"american", " ", "express">> >>
      [] vendor = "leumi"    -> << <<"leumi", " ", "kart">>, <<"leumi", " ", "card">> >>
      [] vendor = "diners"   -> << <<"dainers">>, <<"diners">> >>
      [] OTHER               -> <<>>

RECURSIVE Strip(_)
Strip(s) ==
    IF s # <<>> /\ Head(s) = " " THEN Strip(Tail(s))
    ELSE IF s # <<>> /\ s[Len(s)] = " " THEN Strip(SubSeq(s, 1, Len(s) - 1))
    ELSE s

get_account_last4(account_number) ==
    IF account_number = None THEN None
    ELSE LET trimmed == Strip(account_number)
         IN  IF trimmed = <<>> THEN None
             ELSE IF Len(trimmed) > 4
                  THEN SubSeq(trimmed, Len(trimmed) - 3, Len(trimmed))
                  ELSE trimmed

\* re.findall(r"\d{4,}", text): the maximal runs of four or more digits.
DigitRuns(text) ==
    {SubSeq(text, i, j) : <<i, j>> \in
        {r \in (1..Len(text)) \X (1..Len(text)) :
            /\ r[1] <= r[2]
            /\ \A k \in r[1]..r[2] : IsDigit(text[k])
            /\ (r[1] = 1 \/ ~IsDigit(text[r[1] - 1]))
            /\ (r[2] = Len(text) \/ ~IsDigit(text[r[2] + 1]))
            /\ r[2] - r[1] + 1 >= 4}}

extract_digit_sequences(text) ==
    IF text = <<>> THEN {}
    ELSE LET matches == DigitRuns(text)
         IN  matches \cup {SubSeq(m, Len(m) - 3, Len(m)) :
                              m \in {x \in matches : Len(x) > 4}}

name_contains_vendor(name, cc_vendor) ==
    IF name = <<>> \/ cc_vendor = "" THEN FALSE
    ELSE \E kw \in Range(VENDOR_KEYWORDS(cc_vendor)) :
            IsSubstring(Lower(kw), Lower(name))

RECURSIVE Dedup(_)
\* The elements of s in order of first appearance.
Dedup(s) ==
    IF s = <<>> THEN <<>>
    ELSE LET front == Dedup(SubSeq(s, 1, Len(s) - 1))
         IN  IF s[Len(s)] \in Range(front) THEN front
             ELSE Append(front, s[Len(s)])

build_match_patterns(cc_vendor, cc_account_number) ==
    LET last4 == get_account_last4(cc_account_number)
        patterns ==
            VENDOR_KEYWORDS(cc_vendor)
            \o (IF cc_account_number # None
                THEN <<cc_account_number>>
                     \o (IF last4 # None /\ last4 # cc_account_number
                         THEN <<last4>> ELSE <<>>)
                ELSE <<>>)
    IN  Dedup(SelectSeq(patterns, LAMBDA p : p # <<>>))

DaysInMonth == <<31, 28, 31, 30, 31, 30, 31, 31, 30, 31, 30, 31>>

subtract_calendar_months(anchor, months) ==
    IF months <= 0 THEN anchor
    ELSE LET month0 == (YearOf(anchor) * 12 + (MonthOf(anchor) - 1)) - months
             year   == month0 \div 12
             month  == (month0 % 12) + 1
             day    == Min(DayOf(anchor), DaysInMonth[month])
         IN  Ordinal(year, month, day)

repayment_name_match_strength(pairing, name) ==
    LET hints      == extract_digit_sequences(name)
        cc_account == pairing.credit_card_account_number
        cc_last4   == get_account_last4(cc_account)
    IN  IF cc_account # None /\ cc_account \in hints THEN 2
        ELSE IF cc_last4 # None /\ cc_last4 \in hints THEN 2
        ELSE IF name_contains_vendor(name, pairing.credit_card_vendor) THEN 1
        ELSE 0

-----------------------------------------------------------------------------
(* account_pairing_lab.py: the queries of the Classifier and the Allocator *)

EPSILON == 100
MAX_FEE_AMOUNT == 20000
EARLY_GRACE_DAYS == 14
RECENT_GRACE_DAYS == 14
CLASSIFIER_LIMIT == 500
ALLOCATOR_LIMIT == 2000

\* Variant of the actionable statuses that leaves missing_cc_cycle out.
ActionableWithoutMissing ==
    {"fee_candidate", "large_discrepancy", "cc_over_bank"}

actionable_statuses ==
    {"fee_candidate", "large_discrepancy", "cc_over_bank", "missing_cc_cycle"}

\* build_category_predicates(): the row's category is one of the repayment
\* categories (by its Hebrew, English or French name).
IsRepaymentCategory(t) == t.category = "repayment"

\* The repayment query of both functions, ORDER BY t.date DESC LIMIT limit.
RepaymentRows(bank_vendor, bank_account_number, start_date, end_date, limit) ==
    Take(OrderBy({t \in transactions :
                    /\ t.vendor = bank_vendor
                    /\ t.date >= start_date
                    /\ t.date <= end_date
                    /\ t.status = "completed"
                    /\ t.price < 0
                    /\ IsRepaymentCategory(t)
                    /\ (bank_account_number # None
                            => t.account_number = bank_account_number)},
                 "date DESC"),
         limit)

\* substr(COALESCE(t.processed_date, t.date), 1, 10)
CycleDateOf(t) == IF t.processed_date # None THEN t.processed_date[1] ELSE t.date

\* The CASE of the billed total: a waiver or discount of the card fee, in the
\* fees category, counts with its own sign; every other row with the opposite.
IsFeeWaiver(t) ==
    /\ t.category = "fees"
    /\ t.price < 0
    /\ IsSubstring(<<"dmei", " ", "kartis">>, Lower(t.name))
    /\ \/ IsSubstring(<<"ptor">>, Lower(t.name))
       \/ IsSubstring(<<"hanaha">>, Lower(t.name))

BilledAmount(t) == IF IsFeeWaiver(t) THEN t.price ELSE -t.price

RECURSIVE SumBilled(_)
SumBilled(S) ==
    IF S = {} THEN 0
    ELSE LET t == CHOOSE x \in S : TRUE
         IN  BilledAmount(t) + SumBilled(S \ {t})

BillingRows(cc_vendor, cc_account_number) ==
    {t \in transactions :
        /\ t.vendor = cc_vendor
        /\ t.status = "completed"
        /\ (cc_account_number # None => t.account_number = cc_account_number)}

RECURSIVE OrderAccounts(_)
\* GROUP BY t.account_number fixes no order of the groups; the store yields
\* them by account number, ascending or descending (tie_asc).
OrderAccounts(A) ==
    IF A = {} THEN <<>>
    ELSE LET first == CHOOSE a \in A : \A b \in A \ {a} :
                          IF tie_asc THEN TextLess(a, b) ELSE TextLess(b, a)
         IN  <<first>> \o OrderAccounts(A \ {first})

\* cc_rows of one cycle date: one row per card account.
CcRows(cc_vendor, cc_account_number, date_key) ==
    LET rows     == {t \in BillingRows(cc_vendor, cc_account_number) :
                        CycleDateOf(t) = date_key}
        accounts == OrderAccounts({t.account_number : t \in rows})
    IN  [i \in 1..Len(accounts) |->
            LET group == {t \in rows : t.account_number = accounts[i]}
            IN  [account_number |-> accounts[i],
                 total          |-> SumBilled(group),
                 txn_count      |-> Cardinality(group)]]

get_cc_earliest_cycle_date(cc_vendor, cc_account_number) ==
    LET dates == {CycleDateOf(t) :
                    t \in {x \in BillingRows(cc_vendor, cc_account_number) :
                              x.price < 0 /\ x.category # "fees"}}
    IN  IF dates = {} THEN None
        ELSE Some(CHOOSE d \in dates : \A e \in dates : d <= e)

\* totals[cycle_date] for the cycle dates of the range that have a row.
get_cc_totals_for_date_range(cc_vendor, cc_account_number, start_date, end_date) ==
    LET rows == {t \in BillingRows(cc_vendor, cc_account_number) :
                    CycleDateOf(t) >= start_date /\ CycleDateOf(t) <= end_date}
    IN  [d \in {CycleDateOf(t) : t \in rows} |->
            Max(0, SumBilled({t \in rows : CycleDateOf(t) = d}))]

-----------------------------------------------------------------------------
(* account_pairing_lab.py: classification of one cycle *)

\* Variant of the comparison with EPSILON that leaves the bound itself out.
BelowEpsilon(diff_abs) == diff_abs < EPSILON

WithinEpsilon(diff_abs) == diff_abs <= EPSILON

\* Variant of the fee test that does not look at which side is larger.
IsFeeRowEitherSide(diff_abs, bank_total, row_total) ==
    diff_abs <= MAX_FEE_AMOUNT /\ diff_abs > EPSILON

IsFeeRow(diff_abs, bank_total, row_total) ==
    diff_abs <= MAX_FEE_AMOUNT /\ diff_abs > EPSILON /\ bank_total > row_total

ClassifyDiff(diff) ==
    IF WithinEpsilon(Abs(diff)) THEN "matched"
    ELSE IF diff > 0 /\ diff <= MAX_FEE_AMOUNT THEN "fee_candidate"
    ELSE IF diff > MAX_FEE_AMOUNT THEN "large_discrepancy"
    ELSE "cc_over_bank"

RECURSIVE ScanCcRows(_, _, _, _)
\* The loop over cc_rows: a row within EPSILON ends it as matched; a row the
\* bank exceeds by a fee-sized amount is kept and the loop goes on.
ScanCcRows(cc_rows, i, bank_total, st) ==
    IF i > Len(cc_rows) THEN st
    ELSE LET row_total == Max(0, cc_rows[i].total)
             diff_abs  == Abs(bank_total - row_total)
         IN  IF WithinEpsilon(diff_abs)
             THEN [cc_total        |-> Some(row_total),
                   matched_account |-> cc_rows[i].account_number,
                   status          |-> "matched"]
             ELSE IF IsFeeRow(diff_abs, bank_total, row_total)
             THEN ScanCcRows(cc_rows, i + 1, bank_total,
                             [cc_total        |-> Some(row_total),
                              matched_account |-> cc_rows[i].account_number,
                              status          |-> "fee_candidate"])
             ELSE ScanCcRows(cc_rows, i + 1, bank_total, st)

\* The row of the pairing's own card account, when the loop found nothing.
OwnAccountRow(cc_rows, cc_account_number, bank_total, st) ==
    IF st.status = "missing_cc_cycle" /\ cc_account_number # None
    THEN LET own == {i \in 1..Len(cc_rows) :
                        cc_rows[i].account_number = cc_account_number}
         IN  IF own = {} THEN st
             ELSE LET cc_row    == cc_rows[CHOOSE i \in own : \A j \in own : i <= j]
                      row_total == Max(0, cc_row.total)
                  IN  [cc_total        |-> Some(row_total),
                       matched_account |-> cc_account_number,
                       status          |-> ClassifyDiff(bank_total - row_total)]
    ELSE st

\* raw_status is history: the status before the grace override.
CycleRecord(date_key, bank_total, cc_total, repayments, status, matched_account) ==
    [cycleDate      |-> date_key,
     bankTotal      |-> bank_total,
     ccTotal        |-> cc_total,
     difference     |-> IF cc_total = None THEN None
                        ELSE Some(bank_total - cc_total[1]),
     repayments     |-> repayments,
     status         |-> status,
     raw_status     |-> status,
     matchedAccount |-> matched_account]

ClassifyCycle(bucket, cc_rows, cc_account_number) ==
    LET st0 == [cc_total |-> None, matched_account |-> None,
                status |-> "missing_cc_cycle"]
        st  == IF cc_rows = <<>> THEN st0
               ELSE OwnAccountRow(cc_rows, cc_account_number, bucket.bankTotal,
                                  ScanCcRows(cc_rows, 1, bucket.bankTotal, st0))
    IN  CycleRecord(bucket.repaymentDate, bucket.bankTotal, st.cc_total,
                    bucket.repayments, st.status, st.matched_account)

\* Variant of the recent-grace test that leaves the fourteenth day out.
InRecentGraceExclusive(now, cycle_date) ==
    0 <= now - cycle_date /\ now - cycle_date < RECENT_GRACE_DAYS

InRecentGrace(now, cycle_date) ==
    0 <= now - cycle_date /\ now - cycle_date <= RECENT_GRACE_DAYS

InEarlyGrace(earliest, cycle_date) ==
    earliest # None /\ cycle_date - earliest[1] <= EARLY_GRACE_DAYS

\* Variant of the override that does not ask whether the status is
\* actionable.
GraceStatusOfAnyStatus(status, earliest, now, cycle_date) ==
    IF InEarlyGrace(earliest, cycle_date) THEN "incomplete_history"
    ELSE IF InRecentGrace(now, cycle_date) THEN "incomplete_history"
    ELSE status

GraceStatus(status, earliest, now, cycle_date) ==
    IF status \notin actionable_statuses THEN status
    ELSE IF InEarlyGrace(earliest, cycle_date) THEN "incomplete_history"
    ELSE IF InRecentGrace(now, cycle_date) THEN "incomplete_history"
    ELSE status

\* cycles.sort(key=cycleDate, reverse=True); equal dates keep their order.
SortCyclesNewestFirst(cs) ==
    SortValues(cs, [i \in 1..Len(cs) |-> -(cs[i].cycleDate)])

\* round(a / b, 2) on integers: the nearest integer to a / b, halves to even.
RoundDiv(a, b) ==
    LET q == a \div b
        r == a % b
    IN  IF 2 * r < b THEN q
        ELSE IF 2 * r > b THEN q + 1
        ELSE IF q % 2 = 0 THEN q ELSE q + 1

\* round((a / b) * 100, 2) in 1/100 %, computed in two steps to stay within
\* 32-bit integers: the whole percents, then the hundredths.
PercentOf(a, b) ==
    ((a * 100) \div b) * 100 + RoundDiv(((a * 100) % b) * 100, b)

\* Variant of the filter of the totals that keeps the cycles in grace.
IsComparableInGrace(c) == c.ccTotal # None

\* The cycles the totals are taken over: a card total is known and the cycle
\* is not in a grace period.
IsComparable(c) == c.ccTotal # None /\ c.status # "incomplete_history"

\* The summary over the final cycles; differencePercentage is in 1/100 %.
Discrepancy(cs, acknowledged, months_back) ==
    LET comparable == SelectSeq(cs, IsComparable)
        total_bank == SumSeq([i \in 1..Len(comparable) |-> comparable[i].bankTotal])
        total_cc   == SumSeq([i \in 1..Len(comparable) |-> comparable[i].ccTotal[1]])
        total_diff == total_bank - total_cc
        has_discrepancy == \E c \in Range(cs) : c.status \in actionable_statuses
    IN  [exists               |-> has_discrepancy /\ ~acknowledged,
         acknowledged         |-> acknowledged,
         totalBankRepayments  |-> total_bank,
         totalCCExpenses      |-> total_cc,
         difference           |-> total_diff,
         differencePercentage |-> IF total_cc > 0
                                  THEN PercentOf(total_diff, total_cc)
                                  ELSE 0,
         periodMonths         |-> months_back,
         matchedCycleCount    |-> Cardinality({i \in 1..Len(cs) : cs[i].status = "matched"}),
         totalCycles          |-> Len(cs),
         cycles               |-> cs]

-----------------------------------------------------------------------------
(* account_pairing_lab.py: calculate_discrepancy_app (the Classifier) *)

RepaymentDict(row) ==
    [identifier    |-> row.identifier,
     vendor        |-> row.vendor,
     accountNumber |-> row.account_number,
     date          |-> row.date,
     cycleDate     |-> row.date,
     name          |-> row.name,
     price         |-> row.price]

repayment_matches_cc(name, cc_vendor, cc_account_number) ==
    LET cc_last4 == get_account_last4(cc_account_number)
    IN  IF name = <<>> THEN FALSE
        ELSE IF cc_last4 # None /\ IsSubstring(cc_last4, name) THEN TRUE
        ELSE \E kw \in Range(VENDOR_KEYWORDS(cc_vendor)) :
                IsSubstring(Lower(kw), Lower(name))

\* repayments_by_date, in the order the dates first appear in the rows.
Buckets(rows) ==
    LET date_keys == Dedup([i \in 1..Len(rows) |-> rows[i].date])
    IN  [k \in 1..Len(date_keys) |->
            LET of_date == SelectSeq(rows, LAMBDA r : r.date = date_keys[k])
            IN  [repaymentDate |-> date_keys[k],
                 repayments    |-> [i \in 1..Len(of_date) |-> RepaymentDict(of_date[i])],
                 bankTotal     |-> SumSeq([i \in 1..Len(of_date) |-> Abs(of_date[i].price)])]]

\* SELECT discrepancy_acknowledged FROM account_pairings WHERE id = ?
Acknowledged(pairing_id) ==
    \E i \in 1..Len(account_pairings) :
        /\ account_pairings[i].id = pairing_id
        /\ account_pairings[i].discrepancy_acknowledged

ClassifierFetch ==
    /\ cpc = "start"
    /\ call.fn = "classifier"
    /\ LET p          == call.pairing
           start_date == subtract_calendar_months(today, call.months_back)
           rows       == RepaymentRows(p.bank_vendor, p.bank_account_number,
                                       start_date, today, CLASSIFIER_LIMIT)
           matching   == SelectSeq(rows, LAMBDA r :
                             repayment_matches_cc(r.name, p.credit_card_vendor,
                                                  p.credit_card_account_number))
       IN  IF p.bank_vendor = "" \/ p.credit_card_vendor = ""
           THEN /\ returned' = Some([exists |-> FALSE, cycles |-> <<>>])
                /\ cpc' = "done"
                /\ fetched' = fetched
           ELSE IF matching = <<>>
           THEN /\ returned' = Some([exists       |-> FALSE,
                                     acknowledged |-> Acknowledged(p.id),
                                     reason       |-> "No bank repayments found matching this credit card",
                                     periodMonths |-> call.months_back,
                                     cycles       |-> <<>>])
                /\ cpc' = "done"
                /\ fetched' = fetched
           ELSE /\ fetched' = Some([acknowledged  |-> Acknowledged(p.id),
                                    earliest      |-> get_cc_earliest_cycle_date(
                                                        p.credit_card_vendor,
                                                        p.credit_card_account_number),
                                    repayment_rows |-> rows,
                                    buckets       |-> Buckets(matching)])
                /\ cpc' = "cycles"
                /\ returned' = returned
    /\ UNCHANGED <<mvars, today, call, cycles, alloc_log>>

\* One pass of the loop over repayments_by_date: the cc_rows query of the
\* date and the classification of the cycle.
ClassifierCycle ==
    /\ cpc = "cycles"
    /\ call.fn = "classifier"
    /\ LET p      == call.pairing
           bucket == fetched[1].buckets[Len(cycles) + 1]
           cc_rows == CcRows(p.credit_card_vendor, p.credit_card_account_number,
                             bucket.repaymentDate)
       IN  /\ cycles' = Append(cycles, ClassifyCycle(bucket, cc_rows,
                                                     p.credit_card_account_number))
           /\ cpc' = IF Len(cycles) + 1 = Len(fetched[1].buckets)
                     THEN "finish" ELSE "cycles"
    /\ UNCHANGED <<mvars, today, call, fetched, alloc_log, returned>>

ClassifierFinish ==
    /\ cpc = "finish"
    /\ call.fn = "classifier"
    /\ LET sorted == SortCyclesNewestFirst(cycles)
           final  == [i \in 1..Len(sorted) |->
                        [sorted[i] EXCEPT !.status =
                            GraceStatus(@, fetched[1].earliest, today,
                                        sorted[i].cycleDate)]]
       IN  /\ cycles' = final
           /\ returned' = Some(Discrepancy(final, fetched[1].acknowledged,
                                           call.months_back))
    /\ cpc' = "done"
    /\ UNCHANGED <<mvars, today, call, fetched, alloc_log>>

-----------------------------------------------------------------------------
(* account_pairing_lab.py: calculate_discrepancies_app_for_bank_group        *)
(* (the Allocator)                                                           *)

\* Variant of the precondition that compares the bank vendor only.
SharesBankVendor(pairing, first) == pairing.bank_vendor = first.bank_vendor

SharesBank(pairing, first) ==
    /\ pairing.bank_vendor = first.bank_vendor
    /\ pairing.bank_account_number = first.bank_account_number

PairingIds(pairings) == {pairings[i].id : i \in 1..Len(pairings)}

\* The value a dict keyed by pairing.id holds for id: the last pairing wins.
PairingById(pairings, id) ==
    pairings[CHOOSE i \in 1..Len(pairings) :
                /\ pairings[i].id = id
                /\ \A j \in 1..Len(pairings) : pairings[j].id = id => j <= i]

\* Variant of the selection that takes every pairing with a signal, strong
\* or weak.
PairingsWithSignal(pairings, name, strength) ==
    SelectSeq(pairings, LAMBDA p : repayment_name_match_strength(p, name) > 0)

PairingsOfStrength(pairings, name, strength) ==
    SelectSeq(pairings, LAMBDA p : repayment_name_match_strength(p, name) = strength)

\* Variant of the choice that lets a later candidate of the same new
\* difference replace the earlier one.
BestPairingLastOfEqual(candidates, cc_totals, assigned_total_by_id, amount, date_key) ==
    LET known == {i \in 1..Len(candidates) :
                    date_key \in DOMAIN cc_totals[candidates[i].id]}
        new_diff(i) == Abs((assigned_total_by_id[candidates[i].id] + amount)
                           - cc_totals[candidates[i].id][date_key])
    IN  IF known = {} THEN None
        ELSE LET b == CHOOSE i \in known : \A j \in known :
                          \/ new_diff(i) < new_diff(j)
                          \/ new_diff(i) = new_diff(j) /\ i >= j
             IN  Some([pairing |-> candidates[b], new_diff |-> new_diff(b)])

\* Variant of the choice that finds no billed total for the date.
BestPairingWithoutTotals(candidates, cc_totals, assigned_total_by_id, amount, date_key) ==
    None

\* The first candidate with a known billed total for the date whose new
\* difference is the smallest, and that difference.
BestPairing(candidates, cc_totals, assigned_total_by_id, amount, date_key) ==
    LET known == {i \in 1..Len(candidates) :
                    date_key \in DOMAIN cc_totals[candidates[i].id]}
        new_diff(i) == Abs((assigned_total_by_id[candidates[i].id] + amount)
                           - cc_totals[candidates[i].id][date_key])
    IN  IF known = {} THEN None
        ELSE LET b == CHOOSE i \in known : \A j \in known :
                          \/ new_diff(i) < new_diff(j)
                          \/ new_diff(i) = new_diff(j) /\ i <= j
             IN  Some([pairing |-> candidates[b], new_diff |-> new_diff(b)])

\* Variant of the assignment that credits every candidate pairing.
AssignToEveryCandidate(best_pairing, candidates) == PairingIds(candidates)

\* The pairings whose running total and list receive the repayment.
AssignTargets(best_pairing, candidates) == {best_pairing.id}

\* One pass of the loop over repayments_sorted.  steps is history.
AssignOne(st, repayment, pairings, cc_totals, date_key) ==
    LET amount == Abs(repayment.price)
        name   == repayment.name
        digit_candidates  == PairingsOfStrength(pairings, name, 2)
        vendor_candidates == PairingsOfStrength(pairings, name, 1)
        candidates == IF digit_candidates # <<>> THEN digit_candidates
                      ELSE IF vendor_candidates # <<>> THEN vendor_candidates
                      ELSE pairings
        has_signal == digit_candidates # <<>> \/ vendor_candidates # <<>>
        best == BestPairing(candidates, cc_totals, st.assigned_total_by_id,
                            amount, date_key)
        step(to) == [identifier |-> repayment.identifier,
                     candidates |-> [i \in 1..Len(candidates) |-> candidates[i].id],
                     has_signal |-> has_signal,
                     running    |-> st.assigned_total_by_id,
                     best_new_diff |-> IF best = None THEN None
                                       ELSE Some(best[1].new_diff),
                     assigned_to |-> to]
        leave == [st EXCEPT !.unassigned = Append(@, repayment),
                            !.steps = Append(@, step(None))]
        give(p) ==
            [st EXCEPT
                !.assigned_total_by_id =
                    [id \in DOMAIN @ |->
                        IF id \in AssignTargets(p, candidates)
                        THEN @[id] + amount ELSE @[id]],
                !.assigned_txns_by_id =
                    [id \in DOMAIN @ |->
                        IF id \in AssignTargets(p, candidates)
                        THEN Append(@[id], repayment) ELSE @[id]],
                !.steps = Append(@, step(Some(p.id)))]
    IN  IF best = None
        THEN IF ~has_signal THEN leave ELSE give(candidates[1])
        ELSE IF ~has_signal /\ best[1].new_diff > EPSILON THEN leave
        ELSE give(best[1].pairing)

\* The allocation of one date bucket.
Allocate(repayments, pairings, cc_totals, date_key) ==
    LET repayments_sorted ==
            SortValues(repayments,
                       [i \in 1..Len(repayments) |-> -Abs(repayments[i].price)])
        ids == PairingIds(pairings)
        F[i \in 0..Len(repayments_sorted)] ==
            IF i = 0
            THEN [assigned_total_by_id |-> [id \in ids |-> 0],
                  assigned_txns_by_id  |-> [id \in ids |-> <<>>],
                  unassigned           |-> <<>>,
                  steps                |-> <<>>]
            ELSE AssignOne(F[i - 1], repayments_sorted[i], pairings,
                           cc_totals, date_key)
    IN  F[Len(repayments_sorted)]

\* The cycle of one pairing on one date, grace override applied.
AllocatedCycle(pairing, date_key, alloc, cc_totals, earliest, now) ==
    LET bank_total == alloc.assigned_total_by_id[pairing.id]
        known      == date_key \in DOMAIN cc_totals[pairing.id]
        cc_total   == IF known THEN Some(cc_totals[pairing.id][date_key]) ELSE None
        status     == IF known THEN ClassifyDiff(bank_total - cc_total[1])
                      ELSE "missing_cc_cycle"
        raw        == CycleRecord(date_key, bank_total, cc_total,
                                  alloc.assigned_txns_by_id[pairing.id], status,
                                  pairing.credit_card_account_number)
    IN  [raw EXCEPT !.status = GraceStatus(@, earliest[pairing.id], now, date_key)]

AllocatorValidate ==
    /\ cpc = "start"
    /\ call.fn = "allocator"
    /\ LET pairings == call.pairings
       IN  IF pairings = <<>>
           THEN returned' = Some(<<>>) /\ cpc' = "done"
           ELSE IF \E i \in 2..Len(pairings) : ~SharesBank(pairings[i], pairings[1])
           THEN returned' = Some("ValueError") /\ cpc' = "raised"
           ELSE returned' = returned /\ cpc' = "fetch"
    /\ UNCHANGED <<mvars, today, call, fetched, cycles, alloc_log>>

AllocatorFetch ==
    /\ cpc = "fetch"
    /\ call.fn = "allocator"
    /\ LET pairings   == call.pairings
           ids        == PairingIds(pairings)
           start_date == subtract_calendar_months(today, call.months_back)
           rows == RepaymentRows(pairings[1].bank_vendor,
                                 pairings[1].bank_account_number,
                                 start_date, today, ALLOCATOR_LIMIT)
           date_keys == Dedup([i \in 1..Len(rows) |-> rows[i].date])
           by_date == [k \in 1..Len(date_keys) |->
                LET of_date == SelectSeq(rows, LAMBDA r : r.date = date_keys[k])
                IN  [i \in 1..Len(of_date) |-> RepaymentDict(of_date[i])]]
       IN  /\ fetched' = Some(
                [repayment_rows |-> rows,
                 date_keys |-> date_keys,
                 repayments_by_date |-> by_date,
                 cc_totals_by_pairing_id |->
                    [id \in ids |->
                        LET p == PairingById(pairings, id)
                        IN  get_cc_totals_for_date_range(
                                p.credit_card_vendor, p.credit_card_account_number,
                                start_date, today)],
                 earliest_cc_date_by_pairing_id |->
                    [id \in ids |->
                        LET p == PairingById(pairings, id)
                        IN  get_cc_earliest_cycle_date(
                                p.credit_card_vendor, p.credit_card_account_number)]])
           /\ cycles' = [id \in ids |-> <<>>]
           /\ cpc' = IF date_keys = <<>> THEN "finish" ELSE "buckets"
    /\ UNCHANGED <<mvars, today, call, alloc_log, returned>>

\* One pass of the loop over repayments_by_date.
AllocatorBucket ==
    /\ cpc = "buckets"
    /\ call.fn = "allocator"
    /\ LET pairings == call.pairings
           k        == Len(alloc_log) + 1
           date_key == fetched[1].date_keys[k]
           observed == fetched[1].repayments_by_date[k]
           cc_totals == fetched[1].cc_totals_by_pairing_id
           alloc    == Allocate(observed, pairings, cc_totals, date_key)
           C[i \in 0..Len(pairings)] ==
                IF i = 0 THEN cycles
                ELSE IF alloc.assigned_total_by_id[pairings[i].id] <= 0
                THEN C[i - 1]
                ELSE [C[i - 1] EXCEPT ![pairings[i].id] =
                        Append(@, AllocatedCycle(pairings[i], date_key, alloc,
                                    cc_totals,
                                    fetched[1].earliest_cc_date_by_pairing_id,
                                    today))]
       IN  /\ alloc_log' = Append(alloc_log,
                                  [date_key |-> date_key, observed |-> observed]
                                  @@ alloc)
           /\ cycles' = C[Len(pairings)]
           /\ cpc' = IF k = Len(fetched[1].date_keys) THEN "finish" ELSE "buckets"
    /\ UNCHANGED <<mvars, today, call, fetched, returned>>

AllocatorFinish ==
    /\ cpc = "finish"
    /\ call.fn = "allocator"
    /\ LET pairings == call.pairings
           sorted   == [id \in DOMAIN cycles |-> SortCyclesNewestFirst(cycles[id])]
       IN  /\ cycles' = sorted
           /\ returned' = Some(
                [id \in PairingIds(pairings) |->
                    Discrepancy(sorted[id],
                                PairingById(pairings, id).discrepancy_acknowledged,
                                call.months_back)
                    @@ [method |-> "allocated"]])
    /\ cpc' = "done"
    /\ UNCHANGED <<mvars, today, call, fetched, alloc_log>>

-----------------------------------------------------------------------------
(* Inputs of the Classifier and the Allocator *)

MaxBankRows == 2
MaxCardRows == 2

Card2222 == <<"2", "2", "2", "2">>
Bank0999 == <<"0", "9", "9", "9">>

Pairing(id, cc_vendor, cc_account, bank_vendor, bank_account, ack) ==
    PairingRow(id, cc_vendor, cc_account, bank_vendor, bank_account,
               build_match_patterns(cc_vendor, cc_account), TRUE, ack)

P_Cal1456  == Pairing(2, "visaCal", Card1456, "discount", Bank0162, FALSE)
P_Max7890  == Pairing(3, "max", Card7890, "discount", Bank0162, FALSE)
P_Isracard == Pairing(5, "isracard", Card9999, "hapoalim", Bank0162, FALSE)
P_MaxOther == Pairing(6, "max", Card7890, "discount", Bank0999, FALSE)
P_Cal2222  == Pairing(7, "visaCal", Card2222, "discount", Bank0162, TRUE)
P_CalAny   == Pairing(8, "visaCal", None, "discount", Bank0162, FALSE)

PairingTable ==
    <<P_CalAny, P_Cal2222, P_MaxOther, P_Isracard, P_Max7890, P_Cal1456>>

\* The invocations: a Classifier call on one pairing, an Allocator call on a
\* list of pairings.
CallChoices ==
    { [fn |-> "classifier", pairing |-> P_Cal1456, months_back |-> 2],
      [fn |-> "classifier", pairing |-> P_Cal1456, months_back |-> 1],
      [fn |-> "classifier", pairing |-> P_CalAny, months_back |-> 2],
      [fn |-> "allocator", pairings |-> <<>>, months_back |-> 2],
      [fn |-> "allocator", pairings |-> <<P_Cal1456, P_Max7890>>, months_back |-> 2],
      [fn |-> "allocator", pairings |-> <<P_Cal2222, P_Cal1456>>, months_back |-> 2],
      [fn |-> "allocator", pairings |-> <<P_Cal1456, P_Isracard>>, months_back |-> 2],
      [fn |-> "allocator", pairings |-> <<P_Cal1456, P_MaxOther>>, months_back |-> 2] }

\* On Nov 23 the Nov 9 cycles are fourteen days old, on Nov 24 fifteen.
TodayChoices == {Ordinal(2025, 11, 23), Ordinal(2025, 11, 24)}

Cal1456Text == <<"cal", " ">> \o Card1456

BankCatalog ==
    { Txn(201, "discount", Bank0162, Ordinal(2025, 11, 9), None, Cal1456Text, -350000, "completed", "repayment"),
      Txn(202, "discount", Bank0162, Ordinal(2025, 10, 9), None, Cal1456Text, -350000, "completed", "repayment"),
      Txn(203, "discount", Bank0162, Ordinal(2025, 10, 9), None, <<"CAL">>,    -340000, "completed", "repayment"),
      Txn(204, "discount", Bank0162, Ordinal(2025, 10, 9), None, <<"x">>,      -350000, "completed", "repayment"),
      Txn(205, "discount", Bank0162, Ordinal(2025, 10, 9), None, <<"max">>,    -10000,  "completed", "repayment"),
      Txn(206, "discount", Bank0162, Ordinal(2025, 10, 9), None, <<"cal">>,    -350000, "pending",   "repayment"),
      Txn(207, "hapoalim", Bank0162, Ordinal(2025, 10, 9), None, Cal1456Text, -350000, "completed", "repayment") }

FeeWaiverText == <<"dmei", " ", "kartis", " ", "ptor">>

\* Card rows: the purchase date and the billing (processed) date.
CardCatalog ==
    { Txn(301, "visaCal", Card1456, Ordinal(2025, 8, 20), Some(Ordinal(2025, 9, 1)),  <<"a">>, -5000,   "completed", "other"),
      Txn(302, "visaCal", Card1456, Ordinal(2025, 9, 20), Some(Ordinal(2025, 10, 9)), <<"a">>, -350000, "completed", "other"),
      Txn(303, "visaCal", Card1456, Ordinal(2025, 9, 21), Some(Ordinal(2025, 10, 9)), <<"a">>, -349900, "completed", "other"),
      Txn(304, "visaCal", Card1456, Ordinal(2025, 9, 22), Some(Ordinal(2025, 10, 9)), <<"a">>, -349899, "completed", "other"),
      Txn(305, "visaCal", Card1456, Ordinal(2025, 9, 23), Some(Ordinal(2025, 10, 9)), <<"a">>, -330000, "completed", "other"),
      Txn(306, "visaCal", Card1456, Ordinal(2025, 9, 24), Some(Ordinal(2025, 10, 9)), <<"a">>, -329999, "completed", "other"),
      Txn(307, "visaCal", Card1456, Ordinal(2025, 9, 25), Some(Ordinal(2025, 10, 9)), <<"a">>, -350101, "completed", "other"),
      Txn(308, "visaCal", Card2222, Ordinal(2025, 9, 26), Some(Ordinal(2025, 10, 9)), <<"a">>, -340000, "completed", "other"),
      Txn(309, "max",     Card7890, Ordinal(2025, 10, 9), None,                       <<"a">>, -350000, "completed", "other"),
      Txn(310, "visaCal", Card1456, Ordinal(2025, 10, 20), Some(Ordinal(2025, 11, 9)), <<"a">>, -300000, "completed", "other"),
      Txn(311, "visaCal", Card1456, Ordinal(2025, 9, 27), Some(Ordinal(2025, 10, 9)), FeeWaiverText, -1000, "completed", "fees"),
      Txn(312, "visaCal", Card1456, Ordinal(2025, 9, 28), Some(Ordinal(2025, 10, 9)), <<"a">>, 400000,  "completed", "other") }

InitCycles ==
    /\ \E B \in SubsetsUpTo(BankCatalog, MaxBankRows),
          K \in SubsetsUpTo(CardCatalog, MaxCardRows) :
            transactions = B \cup K
    /\ account_pairings = PairingTable
    /\ tie_asc \in BOOLEAN
    /\ today \in TodayChoices
    /\ call \in CallChoices
    /\ cpc = "start"
    /\ fetched = None
    /\ cycles = <<>>
    /\ alloc_log = <<>>
    /\ returned = None
    /\ dry_run = TRUE
    /\ table = <<>> /\ conn_table = <<>> /\ table0 = <<>>
    /\ pc = "idle"
    /\ sauvage_repayments = <<>> /\ monthly_repayments = <<>>
    /\ all_matches = <<>> /\ all_stats = <<>>
    /\ matched_expenses = {}
    /\ insert_i = 0 /\ runs = 0 /\ first_matches = None

NextCycles ==
    \/ ClassifierFetch
    \/ ClassifierCycle
    \/ ClassifierFinish
    \/ AllocatorValidate
    \/ AllocatorFetch
    \/ AllocatorBucket
    \/ AllocatorFinish

SpecCycles == InitCycles /\ [][NextCycles]_vars

-----------------------------------------------------------------------------
(* Claims about the Classifier and the Allocator *)

\* The discrepancy records a finished invocation returned, and their cycles.
ReturnedRecords ==
    IF cpc # "done" THEN {}
    ELSE IF call.fn = "classifier" THEN {returned[1]}
    ELSE {returned[1][id] : id \in DOMAIN returned[1]}

ReturnedCycles == UNION {Range(r.cycles) : r \in ReturnedRecords}

\* The card accounts with a billing row of the vendor on the date.
BilledAccounts(cc_vendor, date_key) ==
    {t.account_number : t \in {x \in BillingRows(cc_vendor, None) :
                                  CycleDateOf(x) = date_key}}

\* C2: every returned cycle, of the Classifier and of the Allocator, has
\* status matched if and only if it reports a card total and the bank total
\* differs from it by at most 1.0 (100 agorot).
C2_MatchedIffWithinEpsilon ==
    \A c \in ReturnedCycles :
        (c.status = "matched")
            <=> (c.ccTotal # None /\ Abs(c.bankTotal - c.ccTotal[1]) <= 100)

\* A Classifier call without card account number, two card accounts billed
\* on the date, one of them exactly 1.0 away from the bank total.
C2_Witness ==
    /\ cpc = "done"
    /\ call.fn = "classifier"
    /\ call.pairing.credit_card_account_number = None
    /\ \E c \in ReturnedCycles :
        /\ c.status = "matched"
        /\ Abs(c.bankTotal - c.ccTotal[1]) = 100
        /\ Cardinality(BilledAccounts(call.pairing.credit_card_vendor, c.cycleDate)) = 2

\* C3: every returned cycle with final status fee_candidate has the bank
\* total strictly above the card total, by at most 200.0 (20000 agorot).
C3_FeeCandidateRange ==
    \A c \in ReturnedCycles :
        c.status = "fee_candidate"
            => /\ c.ccTotal # None
               /\ 0 < c.bankTotal - c.ccTotal[1]
               /\ c.bankTotal - c.ccTotal[1] <= 20000

C3_Witness ==
    \E c \in ReturnedCycles :
        /\ c.status = "fee_candidate"
        /\ c.bankTotal - c.ccTotal[1] = 20000

\* C4: a returned cycle whose raw status is actionable and whose date is at
\* most 14 days before today has final status incomplete_history.
C4_RecentActionableIsIncomplete ==
    \A c \in ReturnedCycles :
        (/\ c.raw_status \in {"fee_candidate", "large_discrepancy",
                              "cc_over_bank", "missing_cc_cycle"}
         /\ 0 <= today - c.cycleDate
         /\ today - c.cycleDate <= 14)
            => c.status = "incomplete_history"

\* A large discrepancy dated exactly fourteen days before today, on a card
\* whose history starts long before the cycle.
C4_Witness ==
    /\ cpc = "done"
    /\ call.fn = "classifier"
    /\ \E c \in ReturnedCycles :
        /\ c.raw_status = "large_discrepancy"
        /\ today - c.cycleDate = 14
        /\ ~InEarlyGrace(fetched[1].earliest, c.cycleDate)
        /\ c.status = "incomplete_history"

RECURSIVE SumOver(_, _)
\* The sum of f over the set S of arguments.
SumOver(f, S) ==
    IF S = {} THEN 0
    ELSE LET x == CHOOSE y \in S : TRUE
         IN  f[x] + SumOver(f, S \ {x})

SumAbsPrices(rs) == SumSeq([i \in 1..Len(rs) |-> Abs(rs[i].price)])

\* C5: in every date bucket of the Allocator no repayment is in the assigned
\* list of two pairings, and the assigned bank totals of all pairings add up
\* to the observed repayments of the date minus the unassigned ones; the
\* cycles built for the date carry exactly these totals.
C5_AllocationConserves ==
    \A k \in 1..Len(alloc_log) :
        LET e   == alloc_log[k]
            ids == DOMAIN e.assigned_total_by_id
        IN  /\ \A r \in Range(e.observed) :
                  Cardinality({id \in ids : r \in Range(e.assigned_txns_by_id[id])}) <= 1
            /\ SumOver(e.assigned_total_by_id, ids)
                  = SumAbsPrices(e.observed) - SumAbsPrices(e.unassigned)
            /\ \A id \in ids :
                  SumAbsPrices(e.assigned_txns_by_id[id]) = e.assigned_total_by_id[id]
            /\ SumOver([id \in ids |->
                          SumSeq([i \in 1..Len(cycles[id]) |->
                                    IF cycles[id][i].cycleDate = e.date_key
                                    THEN cycles[id][i].bankTotal ELSE 0])], ids)
                  = SumOver(e.assigned_total_by_id, ids)

\* A date with one repayment left unassigned and one that two pairings were
\* candidates for.
C5_Witness ==
    \E k \in 1..Len(alloc_log) :
        /\ Len(alloc_log[k].unassigned) = 1
        /\ \E s \in Range(alloc_log[k].steps) :
              Len(s.candidates) = 2 /\ s.has_signal /\ s.assigned_to # None

MixedBank(pairings) ==
    \E i, j \in 1..Len(pairings) :
        \/ pairings[i].bank_vendor # pairings[j].bank_vendor
        \/ pairings[i].bank_account_number # pairings[j].bank_account_number

\* C9: an Allocator call on pairings of more than one bank identity raises
\* the validation error with nothing fetched, allocated or returned; a call
\* that finishes was on pairings of one bank identity and returns one record
\* per input pairing.
C9_ValidationBeforeFetch ==
    call.fn = "allocator" =>
        /\ MixedBank(call.pairings) =>
              /\ fetched = None /\ alloc_log = <<>> /\ cycles = <<>>
              /\ \/ cpc = "start" /\ returned = None
                 \/ cpc = "raised" /\ returned = Some("ValueError")
        /\ cpc = "raised" => MixedBank(call.pairings)
        /\ cpc = "done" =>
              /\ ~MixedBank(call.pairings)
              /\ DOMAIN returned[1] = PairingIds(call.pairings)
              /\ Cardinality(DOMAIN returned[1]) = Len(call.pairings)

\* The error raised for two pairings of the same bank vendor and different
\* bank account numbers.
C9_Witness ==
    /\ call.fn = "allocator"
    /\ cpc = "raised"
    /\ Len(call.pairings) = 2
    /\ call.pairings[1].bank_vendor = call.pairings[2].bank_vendor
    /\ call.pairings[1].bank_account_number # call.pairings[2].bank_account_number
    /\ fetched = None

-----------------------------------------------------------------------------
(* account_pairing_lab.py: find_best_bank_account_app (the Discoverer) *)

DISCOVERER_LIMIT == 500

\* sorted(VENDOR_KEYWORDS.keys())
CardVendors == {"amex", "diners", "isracard", "leumi", "max", "visaCal"}

\* The candidate rows, ORDER BY t.date DESC LIMIT limit.
DiscovererRows(bank_vendor_filter, bank_account_filter, limit) ==
    Take(OrderBy({t \in transactions :
                    /\ t.vendor \notin CardVendors
                    /\ (bank_vendor_filter # "" => t.vendor = bank_vendor_filter)
                    /\ (bank_account_filter # None
                            => t.account_number = bank_account_filter)
                    /\ t.price < 0
                    /\ IsRepaymentCategory(t)},
                 "date DESC"),
         limit)

\* The groups by (vendor, account number), in order of first appearance.
Groups(rows, credit_card_vendor, cc_last4) ==
    LET keys == Dedup([i \in 1..Len(rows) |-> <<rows[i].vendor, rows[i].account_number>>])
    IN  [k \in 1..Len(keys) |->
            LET of_key == SelectSeq(rows, LAMBDA r :
                              <<r.vendor, r.account_number>> = keys[k])
            IN  [bankVendor         |-> keys[k][1],
                 bankAccountNumber  |-> keys[k][2],
                 transactions       |->
                    [i \in 1..Len(of_key) |->
                        [identifier |-> of_key[i].identifier,
                         name       |-> of_key[i].name,
                         price      |-> of_key[i].price,
                         date       |-> of_key[i].date]],
                 matchingLast4Count |->
                    Cardinality({i \in 1..Len(of_key) :
                        /\ cc_last4 # None
                        /\ of_key[i].name # <<>>
                        /\ IsSubstring(cc_last4, of_key[i].name)}),
                 matchingVendorCount |->
                    Cardinality({i \in 1..Len(of_key) :
                        name_contains_vendor(of_key[i].name, credit_card_vendor)})]]

\* Variant of the filter that asks for both kinds of reference.
SurvivesOnBoth(g) == g.matchingLast4Count > 0 /\ g.matchingVendorCount > 0

Survives(g) == g.matchingLast4Count > 0 \/ g.matchingVendorCount > 0

\* Variant of the sort key that puts the vendor hits before the last-4 hits.
KeyGreaterVendorFirst(g, h) ==
    \/ g.matchingVendorCount > h.matchingVendorCount
    \/ /\ g.matchingVendorCount = h.matchingVendorCount
       /\ \/ g.matchingLast4Count > h.matchingLast4Count
          \/ /\ g.matchingLast4Count = h.matchingLast4Count
             /\ Len(g.transactions) > Len(h.transactions)

\* The sort key (matchingLast4Count, matchingVendorCount, len(transactions))
\* of g is greater than that of h.
KeyGreater(g, h) ==
    \/ g.matchingLast4Count > h.matchingLast4Count
    \/ /\ g.matchingLast4Count = h.matchingLast4Count
       /\ \/ g.matchingVendorCount > h.matchingVendorCount
          \/ /\ g.matchingVendorCount = h.matchingVendorCount
             /\ Len(g.transactions) > Len(h.transactions)

\* candidates.sort(key=..., reverse=True): greatest key first, groups of
\* equal keys in their order.
SortCandidates(cands) ==
    [k \in 1..Len(cands) |->
        cands[CHOOSE i \in 1..Len(cands) :
                Cardinality({j \in 1..Len(cands) :
                    \/ KeyGreater(cands[j], cands[i])
                    \/ /\ ~KeyGreater(cands[i], cands[j])
                       /\ j < i}) = k - 1]]

DiscovererResult(candidates, credit_card_vendor, credit_card_account_number) ==
    LET cc_last4 == get_account_last4(credit_card_account_number)
        best     == candidates[1]
        samples  == SelectSeq(best.transactions, LAMBDA txn :
                        \/ cc_last4 # None /\ IsSubstring(cc_last4, txn.name)
                        \/ name_contains_vendor(txn.name, credit_card_vendor))
    IN  [found               |-> TRUE,
         bankVendor          |-> best.bankVendor,
         bankAccountNumber   |-> best.bankAccountNumber,
         transactionCount    |-> Len(best.transactions),
         matchingLast4Count  |-> best.matchingLast4Count,
         matchingVendorCount |-> best.matchingVendorCount,
         matchPatterns       |-> build_match_patterns(credit_card_vendor,
                                                      credit_card_account_number),
         sampleTransactions  |->
            LET first == Take(samples, 3)
            IN  [i \in 1..Len(first) |->
                    [name |-> first[i].name, price |-> first[i].price,
                     date |-> first[i].date]],
         otherCandidates     |->
            LET others == Take(Tail(candidates), 2)
            IN  [i \in 1..Len(others) |->
                    [bankVendor        |-> others[i].bankVendor,
                     bankAccountNumber |-> others[i].bankAccountNumber,
                     transactionCount  |-> Len(others[i].transactions)]]]

DiscovererFetch ==
    /\ cpc = "start"
    /\ call.fn = "discoverer"
    /\ IF call.credit_card_vendor = ""
       THEN /\ returned' = Some("ValueError")
            /\ cpc' = "raised"
            /\ fetched' = fetched
       ELSE LET rows == DiscovererRows(call.bank_vendor_filter,
                                       call.bank_account_filter, call.limit)
            IN  IF rows = <<>>
                THEN /\ returned' = Some([found  |-> FALSE,
                                          reason |-> "No bank repayment transactions found"])
                     /\ cpc' = "done"
                     /\ fetched' = Some([rows |-> rows, groups |-> <<>>])
                ELSE /\ fetched' = Some([rows |-> rows, groups |-> <<>>])
                     /\ cpc' = "group"
                     /\ returned' = returned
    /\ UNCHANGED <<mvars, today, call, cycles, alloc_log>>

DiscovererGroup ==
    /\ cpc = "group"
    /\ call.fn = "discoverer"
    /\ fetched' = Some([fetched[1] EXCEPT !.groups =
                            Groups(fetched[1].rows, call.credit_card_vendor,
                                   get_account_last4(call.credit_card_account_number))])
    /\ cpc' = "rank"
    /\ UNCHANGED <<mvars, today, call, cycles, alloc_log, returned>>

DiscovererRank ==
    /\ cpc = "rank"
    /\ call.fn = "discoverer"
    /\ LET candidates == SortCandidates(SelectSeq(fetched[1].groups, Survives))
       IN  returned' =
             IF candidates = <<>>
             THEN Some([found  |-> FALSE,
                        reason |-> "No bank repayments reference this credit card"])
             ELSE Some(DiscovererResult(candidates, call.credit_card_vendor,
                                        call.credit_card_account_number))
    /\ cpc' = "done"
    /\ UNCHANGED <<mvars, today, call, fetched, cycles, alloc_log>>

-----------------------------------------------------------------------------
(* Inputs of the Discoverer *)

MaxCandidateRows == 3

DiscovererCall(cc_vendor, cc_account, bank_vendor_filter, bank_account_filter, limit) ==
    [fn |-> "discoverer",
     credit_card_vendor |-> cc_vendor,
     credit_card_account_number |-> cc_account,
     bank_vendor_filter |-> bank_vendor_filter,
     bank_account_filter |-> bank_account_filter,
     limit |-> limit]

DiscovererCalls ==
    { DiscovererCall("visaCal", Card1456, "", None, DISCOVERER_LIMIT),
      DiscovererCall("visaCal", None, "", None, DISCOVERER_LIMIT),
      DiscovererCall("visaCal", Card1456, "", None, 1),
      DiscovererCall("max", Card7890, "discount", Bank0162, DISCOVERER_LIMIT),
      DiscovererCall("", Card1456, "", None, DISCOVERER_LIMIT) }

X1456Text == <<"x", " ">> \o Card1456

CandidateCatalog ==
    { Txn(401, "discount", Bank0162, Ordinal(2025, 11, 9),  None, Cal1456Text, -350000, "completed", "repayment"),
      Txn(402, "discount", Bank0162, Ordinal(2025, 10, 9),  None, <<"CAL">>,   -340000, "completed", "repayment"),
      Txn(403, "hapoalim", Bank0999, Ordinal(2025, 10, 10), None, X1456Text,   -350000, "completed", "repayment"),
      Txn(404, "hapoalim", Bank0999, Ordinal(2025, 11, 9),  None, <<"x">>,     -350000, "completed", "repayment"),
      Txn(405, "discount", None,     Ordinal(2025, 10, 12), None, <<"max">>,   -10000,  "completed", "repayment"),
      Txn(406, "visaCal",  Card1456, Ordinal(2025, 10, 9),  None, <<"cal">>,   -350000, "completed", "repayment"),
      Txn(407, "discount", Bank0162, Ordinal(2025, 10, 13), None, Cal1456Text, 350000,  "completed", "repayment"),
      Txn(408, "discount", Bank0162, Ordinal(2025, 10, 14), None, Cal1456Text, -350000, "completed", "other"),
      Txn(409, "discount", Bank0162, Ordinal(2025, 11, 10), None, <<"x">>,     -350000, "pending",   "repayment"),
      Txn(410, "mizrahi",  None,     Ordinal(2025, 10, 9),  None, <<"cal">>,   -120000, "completed", "repayment") }

InitDiscoverer ==
    /\ transactions \in SubsetsUpTo(CandidateCatalog, MaxCandidateRows)
    /\ account_pairings = <<>>
    /\ tie_asc \in BOOLEAN
    /\ today = Ordinal(2025, 11, 23)
    /\ call \in DiscovererCalls
    /\ cpc = "start"
    /\ fetched = None
    /\ cycles = <<>>
    /\ alloc_log = <<>>
    /\ returned = None
    /\ dry_run = TRUE
    /\ table = <<>> /\ conn_table = <<>> /\ table0 = <<>>
    /\ pc = "idle"
    /\ sauvage_repayments = <<>> /\ monthly_repayments = <<>>
    /\ all_matches = <<>> /\ all_stats = <<>>
    /\ matched_expenses = {}
    /\ insert_i = 0 /\ runs = 0 /\ first_matches = None

NextDiscoverer ==
    \/ DiscovererFetch
    \/ DiscovererGroup
    \/ DiscovererRank

SpecDiscoverer == InitDiscoverer /\ [][NextDiscoverer]_vars

-----------------------------------------------------------------------------
(* Claims about the Discoverer *)

\* The description refers to the card: it contains the last four digits of
\* the card account, or a keyword of the card vendor in any letter case.
RefersToCard(name, cc_vendor, cc_account_number) ==
    \/ /\ get_account_last4(cc_account_number) # None
       /\ IsSubstring(get_account_last4(cc_account_number), name)
    \/ \E kw \in Range(VENDOR_KEYWORDS(cc_vendor)) :
          IsSubstring(Lower(kw), Lower(name))

\* C10: a finished discovery returns found = false with a reason when it had
\* no candidate row or when no candidate row refers to the card, and found =
\* true otherwise; found = true exactly when some bank-account group has
\* matchingLast4Count > 0 or matchingVendorCount > 0.
C10_FoundIffReferenced ==
    (call.fn = "discoverer" /\ cpc = "done") =>
        LET rows == fetched[1].rows
            referring == {i \in 1..Len(rows) :
                            RefersToCard(rows[i].name, call.credit_card_vendor,
                                         call.credit_card_account_number)}
            groups == Groups(rows, call.credit_card_vendor,
                             get_account_last4(call.credit_card_account_number))
        IN  /\ returned[1].found <=> referring # {}
            /\ returned[1].found <=>
                  \E g \in Range(groups) :
                      g.matchingLast4Count > 0 \/ g.matchingVendorCount > 0
            /\ ~returned[1].found =>
                  returned[1].reason =
                      IF rows = <<>> THEN "No bank repayment transactions found"
                      ELSE "No bank repayments reference this credit card"

\* Found through a group whose only reference is a vendor keyword, next to
\* a group without any reference.
C10_Witness ==
    /\ call.fn = "discoverer"
    /\ cpc = "done"
    /\ returned[1].found
    /\ returned[1].matchingLast4Count = 0
    /\ returned[1].matchingVendorCount > 0
    /\ Len(fetched[1].groups) = 2

-----------------------------------------------------------------------------
(* More about the Discoverer *)

\* C11: when a discovery returns found = true, the returned bank group has the
\* lexicographically greatest tuple (matchingLast4Count, matchingVendorCount,
\* transaction count) among the surviving groups, so no surviving group has
\* more last-4 hits than the winner; the runner-ups are the next groups (two
\* at most) in non-increasing tuple order; and the winner is fixed by the
\* fetched rows: among the groups of greatest tuple it is the one that appears
\* first in the rows.
C11_WinnerHasGreatestTuple ==
    (call.fn = "discoverer" /\ cpc = "done" /\ returned[1].found) =>
        LET groups == fetched[1].groups
            tuple(i) == <<groups[i].matchingLast4Count,
                          groups[i].matchingVendorCount,
                          Len(groups[i].transactions)>>
            GE(a, b) == \/ a[1] > b[1]
                        \/ a[1] = b[1] /\ a[2] > b[2]
                        \/ a[1] = b[1] /\ a[2] = b[2] /\ a[3] >= b[3]
            surviving == {i \in 1..Len(groups) :
                            \/ groups[i].matchingLast4Count > 0
                            \/ groups[i].matchingVendorCount > 0}
            at(r) == {i \in 1..Len(groups) :
                        /\ groups[i].bankVendor = r.bankVendor
                        /\ groups[i].bankAccountNumber = r.bankAccountNumber
                        /\ Len(groups[i].transactions) = r.transactionCount}
            others == returned[1].otherCandidates
            ranked == <<returned[1]>> \o others
            ix(k)  == CHOOSE i \in at(ranked[k]) : TRUE
        IN  /\ \A k \in 1..Len(ranked) :
                  Cardinality(at(ranked[k])) = 1 /\ ix(k) \in surviving
            /\ \A k, l \in 1..Len(ranked) : k # l => ix(k) # ix(l)
            /\ returned[1].matchingLast4Count = tuple(ix(1))[1]
            /\ returned[1].matchingVendorCount = tuple(ix(1))[2]
            /\ \A i \in surviving :
                  /\ GE(tuple(ix(1)), tuple(i))
                  /\ groups[i].matchingLast4Count <= returned[1].matchingLast4Count
                  /\ tuple(i) = tuple(ix(1)) => ix(1) <= i
            /\ Len(others) = Min(2, Cardinality(surviving) - 1)
            /\ \A k \in 1..(Len(ranked) - 1) : GE(tuple(ix(k)), tuple(ix(k + 1)))
            /\ \A i \in surviving \ {ix(k) : k \in 1..Len(ranked)} :
                  GE(tuple(ix(Len(ranked))), tuple(i))

\* The winner has a last-4 hit and no vendor hit, and the two runner-ups have
\* vendor hits only.
C11_Witness ==
    /\ call.fn = "discoverer"
    /\ cpc = "done"
    /\ returned[1].found
    /\ returned[1].matchingLast4Count = 1
    /\ returned[1].matchingVendorCount = 0
    /\ Len(returned[1].otherCandidates) = 2
    /\ \A i \in 1..Len(fetched[1].groups) :
          fetched[1].groups[i].bankVendor # returned[1].bankVendor
              => fetched[1].groups[i].matchingVendorCount > 0

-----------------------------------------------------------------------------
(* More about the Classifier and the Allocator *)

\* C12: a returned discrepancy record has exists = true if and only if one of
\* its cycles has a final status in {fee_candidate, large_discrepancy,
\* cc_over_bank, missing_cc_cycle} and the pairing is not acknowledged (for
\* the Classifier by the row of account_pairings, for the Allocator by the
\* pairing passed in); the record of an acknowledged pairing never has
\* exists = true.
C12_ExistsIffActionableUnacknowledged ==
    (cpc = "done" /\ call.fn \in {"classifier", "allocator"}) =>
        LET ok(r, ack) ==
                /\ r.exists <=>
                      /\ \E c \in Range(r.cycles) :
                            c.status \in {"fee_candidate", "large_discrepancy",
                                          "cc_over_bank", "missing_cc_cycle"}
                      /\ ~ack
                /\ ack => ~r.exists
        IN  IF call.fn = "classifier"
            THEN ok(returned[1],
                    \E i \in 1..Len(account_pairings) :
                        /\ account_pairings[i].id = call.pairing.id
                        /\ account_pairings[i].discrepancy_acknowledged)
            ELSE \A i \in 1..Len(call.pairings) :
                    ok(returned[1][call.pairings[i].id],
                       call.pairings[i].discrepancy_acknowledged)

\* An acknowledged pairing with an actionable cycle next to a pairing that is
\* not acknowledged and reports its discrepancy.
C12_Witness ==
    /\ cpc = "done"
    /\ call.fn = "allocator"
    /\ \E i, j \in 1..Len(call.pairings) :
        /\ call.pairings[i].discrepancy_acknowledged
        /\ ~returned[1][call.pairings[i].id].exists
        /\ \E c \in Range(returned[1][call.pairings[i].id].cycles) :
              c.status = "missing_cc_cycle"
        /\ ~call.pairings[j].discrepancy_acknowledged
        /\ returned[1][call.pairings[j].id].exists

C14_MissingIffNoBillingRow ==
    call.fn = "classifier" =>
        \A c \in Range(cycles) :
            LET rows == {t \in BillingRows(call.pairing.credit_card_vendor,
                                           call.pairing.credit_card_account_number) :
                            CycleDateOf(t) = c.cycleDate}
            IN  /\ (c.raw_status = "missing_cc_cycle" /\ c.ccTotal = None)
                      <=> rows = {}
                /\ rows # {} =>
                      /\ c.ccTotal # None
                      /\ c.raw_status \in {"matched", "fee_candidate",
                                           "large_discrepancy", "cc_over_bank"}

-----------------------------------------------------------------------------
(* More about the Matcher *)

\* C15 (as stated): a processed repayment is reported unmatched with error
\* unknown_card if and only if its description contains no match pattern of
\* any active pairing; otherwise it is resolved to the first active pairing
\* with a pattern in the description, whose card its matches carry.
C15_UnknownCardIffNoPattern ==
    /\ \A k \in 1..Len(all_stats) :
          (all_stats[k].stats.error = "unknown_card")
              <=> ~\E i \in 1..Len(account_pairings) :
                      /\ account_pairings[i].is_active
                      /\ \E j \in 1..Len(account_pairings[i].match_patterns) :
                            IsSubstring(account_pairings[i].match_patterns[j],
                                        all_stats[k].repayment_name)
    /\ \A k \in 1..Len(all_matches) :
          \A r \in transactions :
              r.identifier = all_matches[k].repayment_txn_id =>
                  LET hits == {i \in 1..Len(account_pairings) :
                                  /\ account_pairings[i].is_active
                                  /\ \E j \in 1..Len(account_pairings[i].match_patterns) :
                                        IsSubstring(account_pairings[i].match_patterns[j],
                                                    r.name)}
                  IN  /\ hits # {}
                      /\ all_matches[k].card_number =
                            account_pairings[CHOOSE i \in hits :
                                \A h \in hits : i <= h].credit_card_account_number

\* C16 (as stated, for the Matcher): the expense of every ExpenseMatch of the
\* run is a completed transaction.
C16_OnlyCompletedExpensesMatched ==
    \A k \in 1..Len(all_matches) :
        \A t \in transactions :
            (/\ t.identifier = all_matches[k].expense_txn_id
             /\ t.vendor = all_matches[k].expense_vendor)
                => t.status = "completed"

\* C18 (as stated): the report of every processed repayment is in exactly one
\* of the five terminal states, and a repayment with zero matches is reported
\* unmatched(no_expenses) or unmatched(unknown_card).
C18_FiveTerminalStates ==
    \A k \in 1..Len(all_stats) :
        LET s == all_stats[k].stats
            states == <<s.error = "unknown_card",
                        s.error = "no_expenses",
                        s.error = "" /\ s.match_type = "sauvage"
                                     /\ s.matched_count = 1,
                        s.error = "" /\ s.match_type = "monthly"
                                     /\ s.matched_count >= 1 /\ ~s.had_carryover,
                        s.error = "" /\ s.match_type = "monthly"
                                     /\ s.matched_count >= 1 /\ s.had_carryover>>
        IN  /\ Cardinality({i \in 1..5 : states[i]}) = 1
            /\ s.matched_count = 0 => s.error \in {"no_expenses", "unknown_card"}

-----------------------------------------------------------------------------
(* The Matcher on snapshots with expenses next to the repayment's amount *)

\* Card rows and repayments within a few units and a few days of each other,
\* next to the pairings of the Matcher.
InitSauvage ==
    /\ \E E \in SubsetsUpTo(
                {t \in ExpenseCatalog : t.identifier \in {1, 7}} \cup
                { Txn(8, "visaCal", Card1456, Ordinal(2025, 10, 15), None, <<"b">>, -120000, "completed", "other"),
                  Txn(9, "max",     Card7890, Ordinal(2025, 11, 7),  None, <<"a">>, -100300, "completed", "other") },
                MaxExpenses),
          R \in SubsetsUpTo(
                {t \in RepaymentCatalog : t.identifier \in {101, 102, 103, 104}} \cup
                { Txn(107, "discount", None, Ordinal(2025, 11, 10), None, <<"max">>, -100500, "completed", "repayment") },
                MaxRepayments) :
            transactions = E \cup R
    /\ account_pairings \in PairingChoices
    /\ tie_asc \in BOOLEAN
    /\ dry_run \in BOOLEAN
    /\ table = <<>> /\ conn_table = <<>> /\ table0 = <<>>
    /\ pc = "start"
    /\ sauvage_repayments = <<>> /\ monthly_repayments = <<>>
    /\ all_matches = <<>> /\ all_stats = <<>>
    /\ matched_expenses = {}
    /\ insert_i = 0 /\ runs = 1 /\ first_matches = None
    /\ today = 0 /\ call = None /\ cpc = "" /\ fetched = None
    /\ cycles = <<>> /\ alloc_log = <<>> /\ returned = None

SpecSauvage == InitSauvage /\ [][NextMatcher]_vars

\* C19 (as stated): when the repayment being processed is flagged sauvage and
\* an expense of its card that is unmatched (neither in the match table nor
\* consumed earlier in the run) is dated in the seven days before it with an
\* amount less than 1.00 away, the step appends exactly one ExpenseMatch, of
\* method sauvage_payment and confidence 1, that refers to such an expense.
C19_SauvageMatchesNearExpense ==
    [][(pc = "process" /\ sauvage_repayments # <<>>
            /\ Len(all_stats') = Len(all_stats) + 1) =>
        LET r    == Head(sauvage_repayments)
            card == get_card_from_repayment_name(r.name)
            near == {t \in transactions :
                        /\ t.vendor = card.cc_vendor
                        /\ t.account_number = card.card_number
                        /\ t.price < 0
                        /\ r.date - 7 <= t.date /\ t.date < r.date
                        /\ Abs(Abs(t.price) - Abs(r.price)) < 100
                        /\ <<t.identifier, t.vendor>> \notin matched_expenses
                        /\ \A i \in 1..Len(conn_table) :
                              <<conn_table[i].expense_txn_id,
                                conn_table[i].expense_vendor>>
                                  # <<t.identifier, t.vendor>>}
        IN  near # {} =>
                /\ Len(all_matches') = Len(all_matches) + 1
                /\ LET m == all_matches'[Len(all_matches')]
                   IN  /\ m.repayment_txn_id = r.identifier
                       /\ m.match_method = "sauvage_payment"
                       /\ m.match_confidence = 1
                       /\ \E t \in near : /\ m.expense_txn_id = t.identifier
                                          /\ m.expense_vendor = t.vendor]_vars

-----------------------------------------------------------------------------
(* The Classifier and the Allocator next to a process that writes the store *)

\* The rows one transaction of the ingestion process adds: a repayment and
\* the card row billed on the same date.
IngestBatch ==
    {t \in BankCatalog \cup CardCatalog : t.identifier \in {202, 302}}

\* The ingestion process commits its transaction.  The invocation holds no
\* read transaction (the connection is used statement by statement), so the
\* commit can fall between any two of its queries.
Ingest ==
    /\ cpc \notin {"done", "raised"}
    /\ ~(IngestBatch \subseteq transactions)
    /\ transactions' = transactions \cup IngestBatch
    /\ UNCHANGED <<cvars, account_pairings, tie_asc, table, conn_table, pc,
                   dry_run, sauvage_repayments, monthly_repayments, all_matches,
                   all_stats, matched_expenses, insert_i, table0, runs,
                   first_matches>>

InitIngest ==
    /\ InitCycles
    /\ Cardinality(transactions) <= 1
    /\ transactions \cap IngestBatch = {}
    /\ call.fn = "classifier" => call.pairing.credit_card_account_number # None

NextIngest ==
    \/ NextCycles
    \/ Ingest

SpecIngest == InitIngest /\ [][NextIngest]_vars

\* C17 (as stated): the card total of every cycle of a Classifier invocation
\* is the one of the version of the store its repayment query read: of the
\* store with the rows of the concurrent write when the repayment rows
\* include the written repayment, of the store without them otherwise.
C17_ReadsOneSnapshot ==
    (call.fn = "classifier" /\ fetched # None) =>
        LET p == call.pairing
            saw_write == \E i \in 1..Len(fetched[1].repayment_rows) :
                            fetched[1].repayment_rows[i] \in IngestBatch
            store == IF saw_write THEN transactions \cup IngestBatch
                     ELSE transactions \ IngestBatch
            billed(date_key) ==
                {t \in store :
                    /\ t.vendor = p.credit_card_vendor
                    /\ t.status = "completed"
                    /\ t.account_number = p.credit_card_account_number
                    /\ CycleDateOf(t) = date_key}
        IN  \A c \in Range(cycles) :
                c.ccTotal = IF billed(c.cycleDate) = {} THEN None
                            ELSE Some(Max(0, SumBilled(billed(c.cycleDate))))

-----------------------------------------------------------------------------
(* The Matcher on snapshots where the accumulation has a choice to make *)

\* Card rows of card 1456 around one monthly repayment (Nov 9) and one
\* repayment after the 15th (Nov 20): rows of the billing month (October)
\* that reach the amount, overshoot it or still fit after it is reached, and
\* rows of earlier months on both sides of the start of the lookback.
InitGreedy ==
    /\ \E E \in SubsetsUpTo(
                { Txn(11, "visaCal", Card1456, Ordinal(2025, 10, 3), None, <<"a">>, -79900, "completed", "other"),
                  Txn(12, "visaCal", Card1456, Ordinal(2025, 10, 3), None, <<"b">>, -100,   "completed", "other"),
                  Txn(13, "visaCal", Card1456, Ordinal(2025, 10, 1), None, <<"c">>, -90000, "completed", "other"),
                  Txn(14, "visaCal", Card1456, Ordinal(2025, 7, 20), None, <<"a">>, -20200, "completed", "other"),
                  Txn(15, "visaCal", Card1456, Ordinal(2025, 9, 10), None, <<"a">>, -30000, "completed", "other") },
                MaxExpenses),
          R \in SubsetsUpTo(
                {t \in RepaymentCatalog : t.identifier \in {102, 105}} \cup
                { Txn(108, "discount", None, Ordinal(2025, 11, 20), None, <<"cal", " ">> \o Card1456, -110000, "completed", "repayment") },
                MaxRepayments) :
            transactions = E \cup R
    /\ account_pairings \in PairingChoices
    /\ tie_asc \in BOOLEAN
    /\ dry_run \in BOOLEAN
    /\ table = <<>> /\ conn_table = <<>> /\ table0 = <<>>
    /\ pc = "start"
    /\ sauvage_repayments = <<>> /\ monthly_repayments = <<>>
    /\ all_matches = <<>> /\ all_stats = <<>>
    /\ matched_expenses = {}
    /\ insert_i = 0 /\ runs = 1 /\ first_matches = None
    /\ today = 0 /\ call = None /\ cpc = "" /\ fetched = None
    /\ cycles = <<>> /\ alloc_log = <<>> /\ returned = None

SpecGreedy == InitGreedy /\ [][NextMatcher]_vars

\* C21: when a repayment goes through the standard billing-period step, the
\* unmatched expenses of the period are taken in the order (date, then
\* description): an expense becomes an auto_chronological match exactly when
\* the loop has not stopped before it and adding it keeps the running sum at
\* most the repayment amount plus 2 (200 agorot); the loop has stopped once
\* the running sum is within 2 of the repayment amount, and nothing after
\* that point is taken.
C21_BillingPeriodGreedy ==
    [][(/\ Len(all_stats') = Len(all_stats) + 1
        /\ all_stats'[Len(all_stats')].stats.error # "unknown_card"
        /\ all_stats'[Len(all_stats')].stats.match_type # "sauvage")
       => LET r      == IF sauvage_repayments # <<>> THEN Head(sauvage_repayments)
                        ELSE Head(monthly_repayments)
              amount == Abs(r.price)
              card   == get_card_from_repayment_name(r.name)
              period == get_billing_period(r.date)
              new    == SubSeq(all_matches', Len(all_matches) + 1, Len(all_matches'))
              auto   == SelectSeq(new, LAMBDA m : m.match_method = "auto_chronological")
              pool   == {t \in UnmatchedExpenses(card.cc_vendor, card.card_number,
                                    period.period_start, period.period_end, FALSE) :
                            <<t.identifier, t.vendor>> \notin matched_expenses}
              taken  == {t \in pool : \E i \in 1..Len(auto) :
                            auto[i].expense_txn_id = t.identifier}
              Precedes(e, f) == \/ e.date < f.date
                                \/ e.date = f.date /\ TextLess(e.name, f.name)
              SumBefore(e) == SumOver([t \in pool |-> Abs(t.price)],
                                      {f \in taken : Precedes(f, e)})
              StoppedBefore(e) ==
                  \E f \in taken : /\ Precedes(f, e)
                                   /\ Abs(SumBefore(f) + Abs(f.price) - amount) <= 200
          IN  /\ \A i \in 1..Len(auto) :
                    \E t \in pool : /\ t.identifier = auto[i].expense_txn_id
                                    /\ t.date = auto[i].expense_date
                                    /\ t.name = auto[i].expense_name
                                    /\ Abs(t.price) = auto[i].expense_amount
              /\ \A i, j \in 1..Len(auto) :
                    i < j => \/ auto[i].expense_date < auto[j].expense_date
                             \/ /\ auto[i].expense_date = auto[j].expense_date
                                /\ ~TextLess(auto[j].expense_name, auto[i].expense_name)
              /\ \A e \in pool :
                    e \in taken <=> /\ ~StoppedBefore(e)
                                    /\ SumBefore(e) + Abs(e.price) <= amount + 200
      ]_vars

\* The repayment of 800.00 has taken the row of 799.00 and stopped: the row
\* of 1.00 of the same day, later by description, would still fit.
C21_Witness ==
    /\ pc = "process"
    /\ \E t \in transactions : t.identifier = 12
    /\ \E i \in 1..Len(all_matches) :
          /\ all_matches[i].repayment_txn_id = 102
          /\ all_matches[i].expense_txn_id = 11
          /\ all_matches[i].match_method = "auto_chronological"
    /\ \A i \in 1..Len(all_matches) : all_matches[i].expense_txn_id # 12
    /\ \E k \in 1..Len(all_stats) :
          all_stats[k].repayment_date = Ordinal(2025, 11, 9)

\* C22 (as stated): whenever a repayment that went through the standard step
\* is left with a remainder above 2 (200 agorot), the carryover search over
\* the earlier expenses was made for it, also when the billing period held no
\* unmatched expense: no unmatched expense of the lookback window that would
\* still fit is left out.  Matches dated before the billing period are tagged
\* carryover, matches of the billing period auto_chronological.
C22_CarryoverWheneverShort ==
    [][(/\ Len(all_stats') = Len(all_stats) + 1
        /\ all_stats'[Len(all_stats')].stats.error # "unknown_card"
        /\ all_stats'[Len(all_stats')].stats.match_type # "sauvage")
       => LET r      == IF sauvage_repayments # <<>> THEN Head(sauvage_repayments)
                        ELSE Head(monthly_repayments)
              lookback == IF sauvage_repayments # <<>> THEN 365 ELSE 90
              amount == Abs(r.price)
              card   == get_card_from_repayment_name(r.name)
              period == get_billing_period(r.date)
              new    == SubSeq(all_matches', Len(all_matches) + 1, Len(all_matches'))
              total  == SumSeq([i \in 1..Len(new) |-> new[i].expense_amount])
              earlier == {t \in UnmatchedExpenses(card.cc_vendor, card.card_number,
                                    CarryoverStart(r.date, period.period_start, lookback),
                                    period.period_start, TRUE) :
                            <<t.identifier, t.vendor>> \notin matched_expenses}
          IN  /\ \A i \in 1..Len(new) :
                    new[i].match_method =
                        IF new[i].expense_date < period.period_start
                        THEN "carryover" ELSE "auto_chronological"
              /\ amount - total > 200 =>
                    \A e \in earlier :
                        \/ \E i \in 1..Len(new) : new[i].expense_txn_id = e.identifier
                        \/ total + Abs(e.price) > amount + 200
      ]_vars

-----------------------------------------------------------------------------
(* The Matcher: the run as a whole *)

\* C24: in a run every repayment classified sauvage is processed before any
\* other repayment, the sauvage ones by non-decreasing absolute amount, the
\* others by non-increasing date; no repayment is processed twice, and when
\* the processing is over each repayment of the query has been processed.
C24_ProcessingOrder ==
    LET n == Len(all_stats)
        row(k) == CHOOSE r \in Range(Repayments) :
                      /\ r.name = all_stats[k].repayment_name
                      /\ r.date = all_stats[k].repayment_date
                      /\ Abs(r.price) = all_stats[k].repayment_amount
        sauvage(k) == IsSauvageRow(row(k))
    IN  /\ \A k \in 1..n :
              \E r \in Range(Repayments) :
                  /\ r.name = all_stats[k].repayment_name
                  /\ r.date = all_stats[k].repayment_date
                  /\ Abs(r.price) = all_stats[k].repayment_amount
        /\ \A i, j \in 1..n :
              i < j =>
                  /\ row(i).identifier # row(j).identifier
                  /\ sauvage(j) => sauvage(i)
                  /\ (sauvage(i) /\ sauvage(j))
                        => Abs(row(i).price) <= Abs(row(j).price)
                  /\ (~sauvage(i) /\ ~sauvage(j)) => row(i).date >= row(j).date
        /\ pc \in {"insert", "done", "failed"} =>
              {row(k).identifier : k \in 1..n} =
                  {r.identifier : r \in Range(Repayments)}

\* Two sauvage repayments processed smallest first, against their dates.
C24_Witness ==
    /\ pc = "done"
    /\ Len(all_stats) = 2
    /\ all_stats[1].stats.match_type = "sauvage"
    /\ all_stats[2].stats.match_type = "sauvage"
    /\ all_stats[1].repayment_amount < all_stats[2].repayment_amount
    /\ all_stats[1].repayment_date > all_stats[2].repayment_date

\* C29: at every point of a run, for every repayment, the expense amounts of
\* the ExpenseMatch rows emitted for it so far (sauvage_payment,
\* auto_chronological and carryover together) add up to at most the
\* repayment's absolute amount plus 2 (200 agorot).
C29_MatchedSumBounded ==
    \A n \in 1..Len(all_matches) :
        SumSeq([i \in 1..n |->
                  IF all_matches[i].repayment_txn_id = all_matches[n].repayment_txn_id
                  THEN all_matches[i].expense_amount ELSE 0])
            <= all_matches[n].repayment_amount + 200

\* A repayment whose billing-period and carryover matches together are
\* exactly 2.00 above its amount.
C29_Witness ==
    \E n, m \in 1..Len(all_matches) :
        /\ all_matches[m].repayment_txn_id = all_matches[n].repayment_txn_id
        /\ all_matches[m].match_method = "auto_chronological"
        /\ all_matches[n].match_method = "carryover"
        /\ all_matches[m].expense_amount + all_matches[n].expense_amount
              = all_matches[n].repayment_amount + 200

\* C30: an expense recorded in the persisted match table, under its vendor,
\* when a run starts is the expense of no ExpenseMatch of that run, whatever
\* the method of the match.
C30_PersistedExpensesNotConsumed ==
    \A n \in 1..Len(all_matches) :
        \A k \in 1..Len(table0) :
            ~(/\ table0[k].expense_txn_id = all_matches[n].expense_txn_id
              /\ table0[k].expense_vendor = all_matches[n].expense_vendor)

\* A second run on the table the first one left: the sauvage repayment, whose
\* expense of the first run is persisted, has taken another expense.
C30_Witness ==
    /\ runs = 2
    /\ table0 # <<>>
    /\ \E n \in 1..Len(all_matches) :
          /\ all_matches[n].match_method = "sauvage_payment"
          /\ \E k \in 1..Len(table0) :
                /\ table0[k].repayment_txn_id = all_matches[n].repayment_txn_id
                /\ table0[k].match_method = "sauvage_payment"
                /\ table0[k].expense_txn_id # all_matches[n].expense_txn_id

-----------------------------------------------------------------------------
(* More about the Allocator *)

\* Snapshots for the allocation: repayments of one date with and without a
\* card in their description, and billed totals at, just inside and just
\* outside EPSILON of them; cards whose first billing date is 14 and 15 days
\* before a repayment, or after it; Allocator calls on two pairings of one bank
\* account, and a Classifier call.
InitAllocation ==
    /\ \E B \in SubsetsUpTo(
                {t \in BankCatalog : t.identifier \in {201, 202, 203, 204, 205}} \cup
                { Txn(208, "discount", Bank0162, Ordinal(2025, 10, 9), None, <<"CAL">>, -349000, "completed", "repayment") },
                MaxBankRows),
          K \in SubsetsUpTo(
                {t \in CardCatalog : t.identifier \in {301, 302, 303, 304, 308, 309, 310}} \cup
                { Txn(314, "visaCal", Card1456, Ordinal(2025, 9, 20), Some(Ordinal(2025, 9, 25)), <<"a">>, -5000, "completed", "other"),
                  Txn(315, "visaCal", Card1456, Ordinal(2025, 9, 20), Some(Ordinal(2025, 9, 24)), <<"a">>, -5000, "completed", "other") },
                MaxCardRows) :
            transactions = B \cup K
    /\ account_pairings = PairingTable
    /\ tie_asc \in BOOLEAN
    /\ today \in TodayChoices
    /\ call \in { [fn |-> "classifier", pairing |-> P_Cal1456, months_back |-> 2],
                  [fn |-> "allocator", pairings |-> <<P_Cal1456, P_Max7890>>, months_back |-> 2],
                  [fn |-> "allocator", pairings |-> <<P_Cal2222, P_Cal1456>>, months_back |-> 2],
                  [fn |-> "allocator", pairings |-> <<P_Cal1456, P_Cal2222>>, months_back |-> 2] }
    /\ cpc = "start"
    /\ fetched = None /\ cycles = <<>> /\ alloc_log = <<>> /\ returned = None
    /\ dry_run = TRUE
    /\ table = <<>> /\ conn_table = <<>> /\ table0 = <<>>
    /\ pc = "idle"
    /\ sauvage_repayments = <<>> /\ monthly_repayments = <<>>
    /\ all_matches = <<>> /\ all_stats = <<>>
    /\ matched_expenses = {}
    /\ insert_i = 0 /\ runs = 0 /\ first_matches = None

SpecAllocation == InitAllocation /\ [][NextCycles]_vars

\* C25: for every repayment the Allocator looks at, the candidates are the
\* pairings of match strength 2 if there is one, otherwise those of strength
\* 1 if there is one, otherwise all pairings, in input order; a repayment is
\* never assigned to a pairing of lower strength than another pairing of the
\* group.
C25_CandidatesByStrength ==
    \A k \in 1..Len(alloc_log) :
        \A n \in 1..Len(alloc_log[k].steps) :
            LET s == alloc_log[k].steps[n]
                r == CHOOSE x \in Range(alloc_log[k].observed) :
                         x.identifier = s.identifier
                strength(i) == repayment_name_match_strength(call.pairings[i], r.name)
                all  == 1..Len(call.pairings)
                best == CHOOSE v \in 0..2 :
                            /\ \E i \in all : strength(i) = v
                            /\ \A i \in all : strength(i) <= v
                expected == SelectSeq([i \in all |-> i],
                                      LAMBDA i : best = 0 \/ strength(i) = best)
            IN  /\ s.candidates =
                      [i \in 1..Len(expected) |-> call.pairings[expected[i]].id]
                /\ s.has_signal <=> best > 0
                /\ \A i, j \in all :
                      s.assigned_to = Some(call.pairings[i].id)
                          => strength(i) >= strength(j)

\* A repayment naming card 1456, allocated between that card and another
\* card of the same vendor: the other pairing has strength 1 and is no
\* candidate.
C25_Witness ==
    /\ call.fn = "allocator"
    /\ \E k \in 1..Len(alloc_log) :
        \E n \in 1..Len(alloc_log[k].steps) :
            LET s == alloc_log[k].steps[n]
                r == CHOOSE x \in Range(alloc_log[k].observed) :
                         x.identifier = s.identifier
            IN  /\ Len(s.candidates) = 1
                /\ s.assigned_to = Some(s.candidates[1])
                /\ \E i \in 1..Len(call.pairings) :
                      /\ call.pairings[i].id # s.candidates[1]
                      /\ repayment_name_match_strength(call.pairings[i], r.name) = 1

\* C26: the repayments of a date bucket are processed by non-increasing
\* absolute amount, each once; a repayment assigned while some candidate has
\* a known billed total for the date goes to the candidate with a known
\* total for which |total assigned to it so far + amount - billed total| is
\* the smallest, the total assigned so far being that of the moment of the
\* assignment, and to the earliest such candidate in input order when
\* several are equally near.
C26_NearestBilledTotal ==
    \A k \in 1..Len(alloc_log) :
        LET e      == alloc_log[k]
            steps  == e.steps
            rep(n) == CHOOSE x \in Range(e.observed) :
                          x.identifier = steps[n].identifier
            amount(n) == Abs(rep(n).price)
            billed == fetched[1].cc_totals_by_pairing_id
            so_far(id, n) ==
                SumSeq([m \in 1..(n - 1) |->
                          IF steps[m].assigned_to = Some(id) THEN amount(m) ELSE 0])
        IN  /\ Len(steps) = Len(e.observed)
            /\ {steps[n].identifier : n \in 1..Len(steps)}
                  = {x.identifier : x \in Range(e.observed)}
            /\ \A n, m \in 1..Len(steps) : n < m => amount(n) >= amount(m)
            /\ \A n \in 1..Len(steps) :
                  LET cand  == steps[n].candidates
                      known == {i \in 1..Len(cand) : e.date_key \in DOMAIN billed[cand[i]]}
                      dist(i) == Abs(so_far(cand[i], n) + amount(n)
                                     - billed[cand[i]][e.date_key])
                  IN  (steps[n].assigned_to # None /\ known # {}) =>
                          \E b \in known :
                              /\ steps[n].assigned_to = Some(cand[b])
                              /\ \A j \in known :
                                    \/ dist(b) < dist(j)
                                    \/ dist(b) = dist(j) /\ b <= j

\* A repayment that two candidates with a known billed total are equally
\* near to, assigned to the first of them.
C26_Witness ==
    \E k \in 1..Len(alloc_log) :
        \E n \in 1..Len(alloc_log[k].steps) :
            LET s == alloc_log[k].steps[n]
                billed == fetched[1].cc_totals_by_pairing_id
            IN  /\ Len(s.candidates) = 2
                /\ \A i \in 1..2 : alloc_log[k].date_key \in DOMAIN billed[s.candidates[i]]
                /\ billed[s.candidates[1]][alloc_log[k].date_key]
                      = billed[s.candidates[2]][alloc_log[k].date_key]
                /\ s.running[s.candidates[1]] = s.running[s.candidates[2]]
                /\ s.assigned_to = Some(s.candidates[1])

\* C27: a repayment is left unassigned if and only if its description is a
\* signal for no pairing (strength 0 for all) and either no pairing has a
\* known billed total for the date or the smallest |total assigned so far +
\* amount - billed total| is above EPSILON = 1.0 (100 agorot); a repayment
\* with a signal none of whose candidates has a known billed total goes to
\* the first candidate.
C27_UnassignedIffNoSignalAndFar ==
    \A k \in 1..Len(alloc_log) :
        LET e      == alloc_log[k]
            steps  == e.steps
            rep(n) == CHOOSE x \in Range(e.observed) :
                          x.identifier = steps[n].identifier
            amount(n) == Abs(rep(n).price)
            billed == fetched[1].cc_totals_by_pairing_id
            so_far(id, n) ==
                SumSeq([m \in 1..(n - 1) |->
                          IF steps[m].assigned_to = Some(id) THEN amount(m) ELSE 0])
        IN  /\ \A n \in 1..Len(steps) :
                  LET cand   == steps[n].candidates
                      signal == \E i \in 1..Len(call.pairings) :
                                    repayment_name_match_strength(call.pairings[i],
                                                                  rep(n).name) > 0
                      known  == {i \in 1..Len(cand) : e.date_key \in DOMAIN billed[cand[i]]}
                      dist(i) == Abs(so_far(cand[i], n) + amount(n)
                                     - billed[cand[i]][e.date_key])
                  IN  /\ (steps[n].assigned_to = None)
                            <=> /\ ~signal
                                /\ \/ known = {}
                                   \/ \A i \in known : dist(i) > 100
                      /\ (signal /\ known = {}) => steps[n].assigned_to = Some(cand[1])
            /\ {x.identifier : x \in Range(e.unassigned)}
                  = {steps[n].identifier :
                        n \in {m \in 1..Len(steps) : steps[m].assigned_to = None}}

\* A repayment without signal left unassigned 1.01 away from the nearest
\* billed total.
C27_Witness ==
    \E k \in 1..Len(alloc_log) :
        \E n \in 1..Len(alloc_log[k].steps) :
            /\ ~alloc_log[k].steps[n].has_signal
            /\ alloc_log[k].steps[n].best_new_diff = Some(101)
            /\ alloc_log[k].steps[n].assigned_to = None
            /\ Len(alloc_log[k].unassigned) = 1

\* C28 (as stated): a returned cycle has final status incomplete_history only
\* if its raw status was actionable and its date is within 14 days of the
\* card's earliest billing date or within 14 days of today; an actionable
\* cycle more than 14 days away from both keeps its status, and a matched
\* cycle is never relabeled.
C28_GraceWithinFourteenDays ==
    LET pairs ==
            IF cpc # "done" THEN {}
            ELSE IF call.fn = "classifier"
            THEN {<<call.pairing, c>> : c \in Range(returned[1].cycles)}
            ELSE UNION {{<<call.pairings[i], c>> :
                            c \in Range(returned[1][call.pairings[i].id].cycles)} :
                        i \in 1..Len(call.pairings)}
    IN  \A pc_ \in pairs :
            LET c == pc_[2]
                earliest == get_cc_earliest_cycle_date(pc_[1].credit_card_vendor,
                                                       pc_[1].credit_card_account_number)
                actionable == c.raw_status \in {"fee_candidate", "large_discrepancy",
                                                "cc_over_bank", "missing_cc_cycle"}
                early  == earliest # None /\ Abs(c.cycleDate - earliest[1]) <= 14
                recent == 0 <= today - c.cycleDate /\ today - c.cycleDate <= 14
            IN  /\ c.status = "incomplete_history" => actionable /\ (early \/ recent)
                /\ (actionable /\ ~early /\ ~recent) => c.status = c.raw_status
                /\ c.raw_status = "matched" => c.status = "matched"

\* C28 (amended): the same, the early grace reaching from any date before
\* the card's earliest billing date to 14 days after it.
C28_GraceUpToFourteenDaysAfter ==
    LET pairs ==
            IF cpc # "done" THEN {}
            ELSE IF call.fn = "classifier"
            THEN {<<call.pairing, c>> : c \in Range(returned[1].cycles)}
            ELSE UNION {{<<call.pairings[i], c>> :
                            c \in Range(returned[1][call.pairings[i].id].cycles)} :
                        i \in 1..Len(call.pairings)}
    IN  \A pc_ \in pairs :
            LET c == pc_[2]
                earliest == get_cc_earliest_cycle_date(pc_[1].credit_card_vendor,
                                                       pc_[1].credit_card_account_number)
                actionable == c.raw_status \in {"fee_candidate", "large_discrepancy",
                                                "cc_over_bank", "missing_cc_cycle"}
                early  == earliest # None /\ c.cycleDate - earliest[1] <= 14
                recent == 0 <= today - c.cycleDate /\ today - c.cycleDate <= 14
            IN  /\ c.status = "incomplete_history" => actionable /\ (early \/ recent)
                /\ (actionable /\ ~early /\ ~recent) => c.status = c.raw_status
                /\ c.raw_status = "matched" => c.status = "matched"

\* A repayment more than 14 days before the card's first billing date and
\* more than 14 days before today: its cycle is incomplete_history.
C28_Witness ==
    /\ cpc = "done"
    /\ call.fn = "classifier"
    /\ \E c \in Range(returned[1].cycles) :
          /\ c.status = "incomplete_history"
          /\ c.raw_status = "missing_cc_cycle"
          /\ today - c.cycleDate > 14
          /\ fetched[1].earliest # None
          /\ fetched[1].earliest[1] - c.cycleDate > 14

=============================================================================
